---- MODULE Spec2Model ----
(***************************************************************************)
(* A model of url-migrations-checker: the breadth-first crawl loop         *)
(* (crawler.ts), the fetch layer with its retry loop (utils/http.ts), the  *)
(* p-limit based scheduler (utils/concurrency.ts) and the glue between     *)
(* them.  One run of one program is one behaviour; the variable `mode`     *)
(* says which program the behaviour runs.                                  *)
(***************************************************************************)
EXTENDS Integers, Sequences, FiniteSets, TLC

VARIABLES
    mode,                 \* "crawl" | "fetch" | "flare" | "sched" | "validate" | "url" | ...
    \* ---- crawl(config) : crawler.ts ----
    config,               \* CrawlerConfig
    pc,                   \* position of the traversal loop
    queue,                \* BFS queue of {url, depth, discoveredFrom}
    visited,              \* Set<string> of normalized urls
    crawledUrls,          \* CrawledUrl[]
    stats,                \* the four counters declared before the loop
    toProcess,            \* the filtered batch handed to Promise.all
    tasks,                \* per index of toProcess: the limiter task
    output,               \* the artifact handed to fse.writeJson, or NoOutput
    fetchLog,             \* history: urls whose fetch has started, in order
    dequeueLog,           \* history: items spliced off the queue, in order
    settleLog,            \* history: {item, fetched} in the order the tasks settled
    \* ---- fetchUrl / fetchUrlWithFlareSolverr : utils/http.ts ----
    fx,                   \* the state of one fetch call
    \* ---- runWithProgress : utils/concurrency.ts ----
    sx,                   \* the state of one scheduler run
    \* ---- validate(config) : validator.ts ----
    vx,                   \* the state of one validation run
    \* ---- normalizeUrl : crawler.ts ----
    ux,                   \* two urls and what normalizeUrl makes of them
    \* ---- checkSoft404, titlesMatch : utils/soft404.ts ----
    tx,                   \* the arguments of one call and its result
    \* ---- the crawl command : index.ts ----
    cx                    \* the options given, the config built, the exit

crawlVars == <<config, pc, queue, visited, crawledUrls, stats, toProcess,
               tasks, output, fetchLog, dequeueLog, settleLog>>
vars == <<mode, crawlVars, fx, sx, vx, ux, tx, cx>>

(***************************************************************************)
(* Bounds of the model.                                                    *)
(***************************************************************************)
MaxConcurrency == 2       \* config.concurrency ranges over 1..MaxConcurrency
MaxMaxDepth == 2          \* config.maxDepth ranges over 0..MaxMaxDepth
MaxRetries == 4           \* options.retries ranges over 0..MaxRetries
MaxItems == 3             \* runWithProgress is run on up to MaxItems items
MaxUrls == 3              \* validate reads up to MaxUrls crawled urls
MaxSlashes == 3           \* a pathname ends in up to MaxSlashes slashes

(***************************************************************************)
(* Sequence helpers.                                                       *)
(***************************************************************************)
Last(s) == s[Len(s)]
Front(s) == SubSeq(s, 1, Len(s) - 1)
Range(s) == {s[i] : i \in DOMAIN s}
Min(a, b) == IF a <= b THEN a ELSE b
\* the element of a one-element set; Only({F(a) : a \in {e}}) is F(e), with
\* e evaluated once however often F reads it
Only(S) == CHOOSE r \in S : TRUE

\* [...new Set(links)]: first occurrences, in order
RECURSIVE Dedup(_)
Dedup(s) ==
    IF s = <<>> THEN <<>>
    ELSE Only({IF Last(s) \in Range(d) THEN d ELSE Append(d, Last(s)) :
                 d \in {Dedup(Front(s))}})

(***************************************************************************)
(* URLs.  A parsed URL (WHATWG URL record) is modelled by its components:  *)
(*   host   the hostname                                                   *)
(*   path   the pathname as a sequence of tokens, "/" and segment names:   *)
(*          "/" is <<"/">>, "/a/" is <<"/", "a", "/">>                     *)
(*   query  the names of the search parameters, in order                   *)
(*   hash   the fragment, "" when there is none                            *)
(* Two records are equal exactly when their href strings are equal.        *)
(***************************************************************************)
URL(h, p, q, f) == [host |-> h, path |-> p, query |-> q, hash |-> f]
Root == <<"/">>
P(seg) == <<"/", seg>>

\* rank of a parameter name in code-unit order, as URLSearchParams.sort uses
ParamRank(k) == CASE k = "x" -> 1 [] k = "y" -> 2 [] OTHER -> 3

RECURSIVE SortParams(_)
\* searchParams.sort(): stable insertion sort by name
SortParams(q) ==
    IF q = <<>> THEN <<>>
    ELSE LET k == Last(q)
             Insert(s) ==
                 LET n == Cardinality({i \in DOMAIN s : ParamRank(s[i]) <= ParamRank(k)})
                 IN SubSeq(s, 1, n) \o <<k>> \o SubSeq(s, n + 1, Len(s))
         IN Only({Insert(s) : s \in {SortParams(Front(q))}})

\* pathname.slice(0, -1) when pathname !== '/' && pathname.endsWith('/')
StripOneSlash(p) == IF p # Root /\ Last(p) = "/" THEN Front(p) ELSE p

\* crawler.ts normalizeUrl (every url of the model parses, so the catch
\* branch that returns the input unchanged is never taken)
normalizeUrl(u) ==
    [host |-> u.host, path |-> StripOneSlash(u.path),
     query |-> SortParams(u.query), hash |-> ""]

\* html-parser.ts normalizeLink applied to an href already resolved against
\* the base url: the hash is removed and one trailing slash stripped
normalizeLink(u) ==
    [host |-> u.host, path |-> StripOneSlash(u.path),
     query |-> u.query, hash |-> ""]

getDomain(u) == u.host
StripWww(h) == CASE h = "www.a.com" -> "a.com" [] OTHER -> h
isInternalLink(u, base) == StripWww(u.host) = StripWww(base.host)
\* getUrlPath: pathname + search
getUrlPath(u) == [path |-> u.path, query |-> u.query]

isSuccessStatus(statusCode) == statusCode >= 200 /\ statusCode < 300

(***************************************************************************)
(* The network.  A site answers each request for a url with one of a few   *)
(* events: an HTTP response, or a thrown error.  The body of a response is *)
(* the name of the page served; cheerio's view of a body is its title and  *)
(* the hrefs of its anchors, resolved against the base url, in document    *)
(* order (only http hrefs are listed: normalizeLink drops the others).     *)
(***************************************************************************)
A(p, q, f) == URL("a.com", p, q, f)
SourceUrl == A(Root, <<>>, "")
NullUrl == URL("<null>", <<>>, <<>>, "")     \* null / undefined / ''
NullTitle == "<null>"
Absent == "<absent>"                         \* a property that is not set

Sites == {"mixed", "chain"}

PageOf(u) == IF Len(u.path) >= 2 /\ u.path[2] # "/" THEN u.path[2] ELSE "root"

Hrefs(site, body) ==
    IF site = "mixed" THEN
        CASE body = "root" -> << A(<<"/", "a", "/">>, <<>>, ""),
                                 A(P("b"), <<>>, ""),
                                 A(P("a"), <<>>, "top"),
                                 URL("b.org", P("x"), <<>>, ""),
                                 URL("www.a.com", P("c"), <<"y", "x">>, "") >>
          [] body = "a"    -> << A(P("d"), <<>>, ""),
                                 A(Root, <<>>, ""),
                                 A(<<"/", "e", "/", "/", "/">>, <<>>, "") >>
          [] body = "b"    -> << A(P("d"), <<>>, ""), A(P("B"), <<>>, "") >>
          [] body = "c"    -> << A(<<"/", "d", "/">>, <<>>, ""),
                                 A(P("e"), <<>>, "") >>
          [] body = "d"    -> << A(P("e"), <<>>, "") >>
          [] OTHER         -> << >>
    ELSE
        CASE body = "root" -> << A(P("a"), <<>>, "") >>
          [] body = "a"    -> << A(P("b"), <<>>, "") >>
          [] body = "e"    -> << A(P("b"), <<>>, "") >>
          [] OTHER         -> << >>

Title(body) == IF body \in {"", "e"} THEN "" ELSE "Page " \o body

\* what the network can do with one attempt to GET u
NetKinds(site, u) ==
    LET pg == PageOf(u) IN
    IF site = "dest" THEN
        CASE pg = "x"    -> {"ok", "thin", "redirect", "wwwredirect", "redirect404"}
          [] pg = "y"    -> {"ok", "throw", "abort", "http500"}
          [] pg = "z"    -> {"ok", "http404", "soft404", "http204"}
          [] OTHER       -> {"ok"}
    ELSE IF site = "mixed" THEN
        CASE pg = "root" -> {"ok", "throw"}
          [] pg = "b"    -> {"ok", "http404"}
          [] pg = "c"    -> {"ok", "abort"}
          [] pg = "d"    -> {"ok", "redirect"}
          [] OTHER       -> {"ok"}
    ELSE
        CASE pg = "a"    -> {"ok", "http500", "redirect"}
          [] pg = "b"    -> {"ok", "throw", "redirect"}
          [] OTHER       -> {"ok"}

\* where a redirecting page sends the client: on the site "mixed" to /B,
\* on the destination to /m
RedirectTarget(site, u) ==
    IF site = "mixed" THEN A(P("B"), <<>>, "")
    ELSE IF site = "dest" THEN URL(u.host, P("m"), <<>>, "")
    ELSE A(P("e"), <<>>, "")

\* an undici Response, reduced to what fetchUrl reads
Response(status, body, url) == [status |-> status, body |-> body, url |-> url]

NetResponse(site, u, kind) ==
    CASE kind = "ok"       -> Response(200, PageOf(u), u)
      [] kind = "redirect" -> Response(200, PageOf(RedirectTarget(site, u)),
                                       RedirectTarget(site, u))
      [] kind = "wwwredirect" ->
             Response(200, PageOf(u), URL("www." \o u.host, u.path, u.query, ""))
      [] kind = "redirect404" -> Response(404, "gone", RedirectTarget(site, u))
      [] kind = "http404"  -> Response(404, PageOf(u), u)
      [] kind = "http500"  -> Response(500, "", u)
      [] kind = "soft404"  -> Response(200, "gone", u)
      [] kind = "thin"     -> Response(200, "thin", u)
      [] kind = "http204"  -> Response(204, "gone", u)

\* a thrown Error, reduced to name and message
Error(name, message) == [name |-> name, message |-> message]
NullError == Error("<null>", "")             \* let lastError = null

(***************************************************************************)
(* utils/http.ts: FetchResult and the places that build one.               *)
(***************************************************************************)
FetchResult(statusCode, body, finalUrl, wasRedirected, error) ==
    [statusCode |-> statusCode, body |-> body, finalUrl |-> finalUrl,
     wasRedirected |-> wasRedirected, error |-> error]
NoResult == FetchResult(-1, "", NullUrl, FALSE, Absent)

\* JavaScript truthiness of an optional string
Truthy(str) == str # Absent /\ str # ""
\* a || b on optional strings
OrElse(str, fallback) == IF Truthy(str) THEN str ELSE fallback

\* fetchUrl, the return inside try: finalUrl = response.url || url
HttpResult(url, response) ==
    LET finalUrl == IF response.url = NullUrl THEN url ELSE response.url
    IN FetchResult(response.status, response.body, finalUrl, finalUrl # url, Absent)

\* fetchUrl, the return for an AbortError
TimeoutResult(url, timeout) ==
    FetchResult(0, "", url, FALSE,
                "Request timeout after " \o ToString(timeout) \o "ms")

\* (mutant) the final return without its fallback message
ExhaustedResultRawMessage(url, lastError) ==
    FetchResult(0, "", url, FALSE, lastError.message)

\* fetchUrl, the return after the loop: lastError?.message || 'Unknown error'
ExhaustedResult(url, lastError) ==
    FetchResult(0, "", url, FALSE, OrElse(lastError.message, "Unknown error"))

\* (mutant) the backoff without its cap
BackoffUncapped(attempt) == 1000 * attempt

\* Math.min(1000 * attempt, 3000)
Backoff(attempt) == Min(1000 * attempt, 3000)

\* errors the network layer (undici fetch, response.text()) can throw
AbortError == Error("AbortError", "This operation was aborted")
Throwables == {Error("TypeError", "fetch failed"),
               Error("TypeError", "terminated"),
               Error("Error", ""),
               AbortError}

\* one attempt's event for a GET of u on a site: a Response or a thrown Error
NetEvent(site, u, kind) ==
    CASE kind = "throw" -> [thrown |-> TRUE, error |-> Error("TypeError", "fetch failed"),
                            response |-> Response(0, "", NullUrl)]
      [] kind = "abort" -> [thrown |-> TRUE, error |-> AbortError,
                            response |-> Response(0, "", NullUrl)]
      [] OTHER          -> [thrown |-> FALSE, error |-> NullError,
                            response |-> NetResponse(site, u, kind)]

\* the site "any" is the unconstrained network the fetch layer is run against
NetEvents(site, u) ==
    IF site = "any" THEN
        {[thrown |-> TRUE, error |-> e, response |-> Response(0, "", NullUrl)] :
             e \in Throwables}
        \cup {[thrown |-> FALSE, error |-> NullError, response |-> r] :
             r \in {Response(200, "root", u), Response(200, "e", NullUrl),
                    Response(301, "", u),
                    Response(200, "e", A(P("e"), <<>>, "")),
                    Response(404, "b", u), Response(500, "", u)}}
    ELSE {NetEvent(site, u, k) : k \in NetKinds(site, u)}

\* every FetchResult the retry loop of fetchUrl can return for u
fetchUrlReturns(site, u, timeout, retries) ==
    LET ev == NetEvents(site, u) IN
      {HttpResult(u, e.response) : e \in {x \in ev : ~x.thrown}}
      \cup {TimeoutResult(u, timeout) :
               e \in {x \in ev : x.thrown /\ x.error.name = "AbortError"}}
      \cup {ExhaustedResult(u, e.error) :
               e \in {x \in ev : x.thrown /\ x.error.name # "AbortError"}}
(***************************************************************************)
(* fetchUrl(url, {timeout, retries}) as a state machine.  fx.pc is where   *)
(* the call is suspended: "start" (called, not yet run), "request"         *)
(* (awaiting fetch / response.text()), "sleep" (awaiting the backoff       *)
(* sleep), "returned".  fx.events and fx.sleeps are histories: what each   *)
(* attempt ended with, and every sleep the loop asked for.                 *)
(***************************************************************************)
IdleFetch ==
    [url |-> NullUrl, timeout |-> 0, retries |-> 0, pc |-> "idle", attempt |-> 0,
     lastError |-> NullError, result |-> NoResult, events |-> <<>>, sleeps |-> <<>>]

FetchUrls == {SourceUrl, A(P("b"), <<"y", "x">>, "")}
Timeouts == {10000}

\* (mutant) `while (attempt < retries)`
LoopHeadOneShort(f) ==
    IF f.attempt < f.retries
    THEN [f EXCEPT !.attempt = @ + 1, !.pc = "request"]
    ELSE [f EXCEPT !.pc = "returned", !.result = ExhaustedResult(f.url, f.lastError)]

\* the head of `while (attempt <= retries)`: attempt++ and the fetch is
\* issued, or the loop is left and the final return runs
LoopHead(f) ==
    IF f.attempt <= f.retries
    THEN [f EXCEPT !.attempt = @ + 1, !.pc = "request"]
    ELSE [f EXCEPT !.pc = "returned", !.result = ExhaustedResult(f.url, f.lastError)]

\* the try block completes: the response is returned whatever its status
OnResponse(f, response) ==
    [f EXCEPT !.pc = "returned",
              !.result = HttpResult(f.url, response),
              !.events = Append(@, [attempt |-> f.attempt, kind |-> "response",
                                    message |-> "", response |-> response])]

\* the catch block: a timeout returns, any other error sleeps unless this
\* was the last attempt, and the loop goes round
OnError(f, error) ==
    LET g == [f EXCEPT !.lastError = error,
                       !.events = Append(@, [attempt |-> f.attempt,
                            kind |-> IF error.name = "AbortError"
                                     THEN "timeout" ELSE "failure",
                            message |-> error.message,
                            response |-> Response(0, "", NullUrl)])]
    IN IF error.name = "AbortError"
       THEN [g EXCEPT !.pc = "returned", !.result = TimeoutResult(f.url, f.timeout)]
       ELSE IF g.attempt <= g.retries
            THEN [g EXCEPT !.pc = "sleep",
                           !.sleeps = Append(@, [after |-> g.attempt,
                                                 ms |-> Backoff(g.attempt)])]
            ELSE LoopHead(g)

FetchEnter ==
    /\ mode = "fetch" /\ fx.pc = "start"
    /\ fx' = LoopHead(fx)
    /\ UNCHANGED <<mode, cx, ux, tx, crawlVars, sx, vx>>

FetchResponse ==
    /\ mode = "fetch" /\ fx.pc = "request"
    /\ \E e \in NetEvents("any", fx.url) :
          /\ ~e.thrown
          /\ fx' = OnResponse(fx, e.response)
    /\ UNCHANGED <<mode, cx, ux, tx, crawlVars, sx, vx>>

FetchThrow ==
    /\ mode = "fetch" /\ fx.pc = "request"
    /\ \E e \in NetEvents("any", fx.url) :
          /\ e.thrown
          /\ fx' = OnError(fx, e.error)
    /\ UNCHANGED <<mode, cx, ux, tx, crawlVars, sx, vx>>

FetchSleepDone ==
    /\ mode = "fetch" /\ fx.pc = "sleep"
    /\ fx' = LoopHead(fx)
    /\ UNCHANGED <<mode, cx, ux, tx, crawlVars, sx, vx>>

(***************************************************************************)
(* fetchUrlWithFlareSolverr(url, {flaresolverrUrl, timeout}): one POST to  *)
(* the proxy, no loop.  A proxy event is what that POST ends with.         *)
(***************************************************************************)
Solution(url, status, response) == [url |-> url, status |-> status, response |-> response]
NoSolution == Solution(NullUrl, -1, "<undefined>")

ProxyEvent(kind, error, httpStatus, dataStatus, dataMessage, solution) ==
    [kind |-> kind, error |-> error, httpStatus |-> httpStatus,
     dataStatus |-> dataStatus, dataMessage |-> dataMessage, solution |-> solution]

ProxyEvents(site, u) ==
    IF site = "any" THEN
        {ProxyEvent("throw", e, 0, "", "", NoSolution) : e \in Throwables}
        \cup {ProxyEvent("reply", NullError, 500, "", "", NoSolution),
              ProxyEvent("reply", NullError, 200, "error", "", NoSolution),
              ProxyEvent("reply", NullError, 200, "error", "Timeout", NoSolution),
              ProxyEvent("reply", NullError, 200, "ok", "", NoSolution)}
        \cup {ProxyEvent("reply", NullError, 200, "ok", "", Solution(r.url, r.status, r.body)) :
                 r \in {Response(200, "root", u), Response(404, "b", u),
                        Response(200, "e", A(P("e"), <<>>, ""))}}
    ELSE {IF e.thrown
          THEN ProxyEvent("throw", e.error, 0, "", "", NoSolution)
          ELSE ProxyEvent("reply", NullError, 200, "ok", "",
                          Solution(e.response.url, e.response.status, e.response.body)) :
          e \in NetEvents(site, u)}

FailedFlare(url, message) ==
    FetchResult(0, "", url, FALSE, OrElse(message, "FlareSolverr request failed"))

\* the body of fetchUrlWithFlareSolverr after the POST has settled
FlareResult(url, ev) ==
    IF ev.kind = "throw" THEN FailedFlare(url, ev.error.message)
    ELSE IF ~isSuccessStatus(ev.httpStatus)
         THEN FailedFlare(url, "FlareSolverr HTTP error: " \o ToString(ev.httpStatus))
    ELSE IF ev.dataStatus # "ok"
         THEN FetchResult(0, "", url, FALSE, "FlareSolverr error: " \o ev.dataMessage)
    ELSE IF ev.solution = NoSolution
         THEN FailedFlare(url, "Cannot read properties of undefined (reading 'url')")
    ELSE FetchResult(ev.solution.status, ev.solution.response, ev.solution.url,
                     ev.solution.url # url, Absent)

flareReturns(site, u) == {FlareResult(u, ev) : ev \in ProxyEvents(site, u)}

FlareEnter ==
    /\ mode = "flare" /\ fx.pc = "start"
    /\ fx' = [fx EXCEPT !.pc = "request", !.attempt = 1]
    /\ UNCHANGED <<mode, cx, ux, tx, crawlVars, sx, vx>>

FlareReply ==
    /\ mode = "flare" /\ fx.pc = "request"
    /\ \E ev \in ProxyEvents("any", fx.url) :
          fx' = [fx EXCEPT !.pc = "returned",
                           !.result = FlareResult(fx.url, ev),
                           !.events = Append(@, ev)]
    /\ UNCHANGED <<mode, cx, ux, tx, crawlVars, sx, vx>>

(***************************************************************************)
(* runWithProgress(items, task, {concurrency, onComplete}).  Each item's   *)
(* limiter task is "pending" (queued in p-limit), "running", "fulfilled"   *)
(* or "rejected".  The task function returns TaskValue(item, index) or     *)
(* throws.  sx.results is the array Promise.all fills, sx.returned how the *)
(* call has returned to its caller.                                        *)
(***************************************************************************)
Empty == <<"<empty>", 0>>
TaskValue(item, index) == <<item, index>>
ItemValues == {"p", "q"}

IdleSched ==
    [items |-> <<>>, concurrency |-> 0, phase |-> <<>>, results |-> <<>>,
     returned |-> "idle", completed |-> 0, failed |-> 0, callbacks |-> <<>>,
     order |-> <<>>, summaries |-> 0]

\* p-limit: the number of tasks started and not yet settled
ActiveCount(phase) == Cardinality({i \in DOMAIN phase : phase[i] = "running"})

\* (mutant) a limiter that starts a queued task whether or not a slot is free
CanStartAnyTime(phase, i, concurrency) ==
    /\ phase[i] = "pending"
    /\ \A j \in DOMAIN phase : j < i => phase[j] # "pending"

\* (mutant) a limiter that does not free the slot of a task that rejected
CanStartSlotLostOnReject(phase, i, concurrency) ==
    /\ phase[i] = "pending"
    /\ \A j \in DOMAIN phase : j < i => phase[j] # "pending"
    /\ Cardinality({j \in DOMAIN phase : phase[j] \in {"running", "rejected"}})
          < concurrency

\* p-limit admits the head of its queue when a slot is free
CanStart(phase, i, concurrency) ==
    /\ phase[i] = "pending"
    /\ \A j \in DOMAIN phase : j < i => phase[j] # "pending"
    /\ ActiveCount(phase) < concurrency

\* (mutant) results.push(value) as each task completes
StoreResultOnCompletion(results, index, value) ==
    LET free == {i \in DOMAIN results : results[i] = Empty}
        first == CHOOSE i \in free : \A j \in free : i <= j
    IN [results EXCEPT ![first] = value]

\* Promise.all: the value of the promise at `index` goes to that index
StoreResult(results, index, value) == [results EXCEPT ![index] = value]

\* (mutant) the await ends with the first promise that fulfils
AnyFulfilled(phase) == \E i \in DOMAIN phase : phase[i] = "fulfilled"

AllFulfilled(phase) == \A i \in DOMAIN phase : phase[i] = "fulfilled"
\* every promise handed to Promise.all has fulfilled or rejected
AllSettled(phase) == \A i \in DOMAIN phase : phase[i] \in {"fulfilled", "rejected"}

\* the call: items.map submits every item to the limiter, and Promise.all
\* of no promises resolves at once
SchedEnter ==
    /\ mode = "sched" /\ sx.returned = "start"
    /\ sx' = [sx EXCEPT !.phase = [i \in DOMAIN sx.items |-> "pending"],
                        !.results = [i \in DOMAIN sx.items |-> Empty],
                        !.summaries = IF sx.items = <<>> THEN 1 ELSE 0,
                        !.returned = IF sx.items = <<>> THEN "resolved" ELSE "pending"]
    /\ UNCHANGED <<mode, cx, ux, tx, crawlVars, fx, vx>>

SchedStart(i) ==
    /\ mode = "sched" /\ sx.returned # "start"
    /\ i \in DOMAIN sx.phase
    /\ CanStart(sx.phase, i, sx.concurrency)
    /\ sx' = [sx EXCEPT !.phase[i] = "running"]
    /\ UNCHANGED <<mode, cx, ux, tx, crawlVars, fx, vx>>

\* the task returns: tracker.complete(true), onComplete, and the limiter
\* promise fulfils; the last fulfilment resolves Promise.all, and the run
\* logs its summary and returns the results
SchedFulfil(i) ==
    /\ mode = "sched"
    /\ i \in DOMAIN sx.phase
    /\ sx.phase[i] = "running"
    /\ LET v == TaskValue(sx.items[i], i)
           ph == [sx.phase EXCEPT ![i] = "fulfilled"]
           done == AllFulfilled(ph) /\ sx.returned = "pending"
       IN sx' = [sx EXCEPT !.phase = ph,
                           !.results = StoreResult(@, i, v),
                           !.completed = @ + 1,
                           !.callbacks = Append(@, [result |-> v, item |-> sx.items[i],
                                                    success |-> TRUE, index |-> i]),
                           !.order = Append(@, i),
                           !.summaries = IF done THEN @ + 1 ELSE @,
                           !.returned = IF done THEN "resolved" ELSE @]
    /\ UNCHANGED <<mode, cx, ux, tx, crawlVars, fx, vx>>

\* the task throws: tracker.complete(false) and the error is rethrown, so
\* the limiter promise rejects and Promise.all rejects with it at once
SchedReject(i) ==
    /\ mode = "sched"
    /\ i \in DOMAIN sx.phase
    /\ sx.phase[i] = "running"
    /\ sx' = [sx EXCEPT !.phase[i] = "rejected",
                        !.completed = @ + 1,
                        !.failed = @ + 1,
                        !.order = Append(@, i),
                        !.returned = IF @ = "pending" THEN "rejected" ELSE @]
    /\ UNCHANGED <<mode, cx, ux, tx, crawlVars, fx, vx>>

(***************************************************************************)
(* crawler.ts                                                              *)
(***************************************************************************)
Item(url, depth, discoveredFrom) ==
    [url |-> url, depth |-> depth, discoveredFrom |-> discoveredFrom]

CrawledUrl(url, title, statusCode, depth, discoveredFrom) ==
    [url |-> url, path |-> getUrlPath(url), title |-> title,
     statusCode |-> statusCode, depth |-> depth, discoveredFrom |-> discoveredFrom]

NoCrawl == [crawledUrl |-> CrawledUrl(NullUrl, NullTitle, -1, -1, NullUrl),
            links |-> <<>>, thrown |-> FALSE]

\* new RegExp(p, 'i').test(url) for the pattern "/b": a "/" followed by a
\* b or B somewhere in the href (path segments and host names of the model
\* are told apart by their first letter)
StartsWithB(token) == token \in {"b", "B", "b.org"}
PatternTest(pattern, u) ==
    /\ pattern = "/b"
    /\ \/ StartsWithB(u.host)
       \/ \E i \in 1..(Len(u.path) - 1) : u.path[i] = "/" /\ StartsWithB(u.path[i + 1])

shouldExclude(u, patterns) == \E i \in DOMAIN patterns : PatternTest(patterns[i], u)

\* parseHtml(body, baseUrl): title and the internal links, without duplicates
parseHtml(site, body, baseUrl) ==
    LET hrefs == Hrefs(site, body)
        norm == [i \in DOMAIN hrefs |-> normalizeLink(hrefs[i])]
    IN [title |-> IF Title(body) = "" THEN NullTitle ELSE Title(body),
        links |-> Only({Dedup(l) : l \in {SelectSeq(norm,
                                   LAMBDA x : isInternalLink(x, baseUrl))}})]

\* (mutant) crawlUrl lets a failed fetch escape as an exception
crawlUrlThrowing(item, result, cfg) ==
    IF Truthy(result.error)
    THEN [NoCrawl EXCEPT !.thrown = TRUE]
    ELSE LET parsed == parseHtml(cfg.site, result.body, item.url)
         IN [crawledUrl |-> CrawledUrl(result.finalUrl, parsed.title, result.statusCode,
                                       item.depth, item.discoveredFrom),
             links |-> SelectSeq(parsed.links,
                          LAMBDA l : StripWww(getDomain(l)) = StripWww(getDomain(cfg.sourceUrl))),
             thrown |-> FALSE]

\* (mutant) crawlUrl answers a failed fetch with null, which the loop skips
crawlUrlNullOnError(item, result, cfg) ==
    IF Truthy(result.error)
    THEN NoCrawl
    ELSE LET parsed == parseHtml(cfg.site, result.body, item.url)
         IN [crawledUrl |-> CrawledUrl(result.finalUrl, parsed.title, result.statusCode,
                                       item.depth, item.discoveredFrom),
             links |-> SelectSeq(parsed.links,
                          LAMBDA l : StripWww(getDomain(l)) = StripWww(getDomain(cfg.sourceUrl))),
             thrown |-> FALSE]

\* crawlUrl, after the fetch has returned `result`
crawlUrl(item, result, cfg) ==
    IF Truthy(result.error)
    THEN [crawledUrl |-> CrawledUrl(item.url, NullTitle, result.statusCode,
                                    item.depth, item.discoveredFrom),
          links |-> <<>>, thrown |-> FALSE]
    ELSE LET parsed == parseHtml(cfg.site, result.body, item.url)
             sourceDomain == getDomain(cfg.sourceUrl)
         IN [crawledUrl |-> CrawledUrl(result.finalUrl, parsed.title, result.statusCode,
                                       item.depth, item.discoveredFrom),
             links |-> SelectSeq(parsed.links,
                          LAMBDA l : StripWww(getDomain(l)) = StripWww(sourceDomain)),
             thrown |-> FALSE]

\* the fetcher crawlUrl picks, as the set of results it can return
crawlFetchReturns(url, cfg) ==
    IF cfg.renderer = "flaresolverr" /\ cfg.flaresolverrUrl # ""
    THEN flareReturns(cfg.site, url)
    ELSE fetchUrlReturns(cfg.site, url, cfg.timeout, 2)

\* (mutant) the filter without its visited.has test
FilterItemNoVisitedCheck(acc, item, cfg) ==
    LET normalizedUrl == normalizeUrl(item.url) IN
    IF item.depth > cfg.maxDepth
    THEN [acc EXCEPT !.stats.skippedDueToDepth = @ + 1]
    ELSE IF shouldExclude(normalizedUrl, cfg.excludePatterns)
         THEN [acc EXCEPT !.stats.skippedDueToExclude = @ + 1]
    ELSE [acc EXCEPT !.visited = @ \cup {normalizedUrl},
                     !.toProcess = Append(@, item)]

\* (mutant) the filter counts an excluded item and keeps it all the same
FilterItemKeepsExcluded(acc, item, cfg) ==
    LET normalizedUrl == normalizeUrl(item.url) IN
    IF normalizedUrl \in acc.visited THEN acc
    ELSE IF item.depth > cfg.maxDepth
         THEN [acc EXCEPT !.stats.skippedDueToDepth = @ + 1]
    ELSE [acc EXCEPT !.stats.skippedDueToExclude =
                         IF shouldExclude(normalizedUrl, cfg.excludePatterns)
                         THEN @ + 1 ELSE @,
                     !.visited = @ \cup {normalizedUrl},
                     !.toProcess = Append(@, item)]

\* (mutant) the filter lets one level more than maxDepth through
FilterItemOneLevelMore(acc, item, cfg) ==
    LET normalizedUrl == normalizeUrl(item.url) IN
    IF normalizedUrl \in acc.visited THEN acc
    ELSE IF item.depth > cfg.maxDepth + 1
         THEN [acc EXCEPT !.stats.skippedDueToDepth = @ + 1]
    ELSE IF shouldExclude(normalizedUrl, cfg.excludePatterns)
         THEN [acc EXCEPT !.stats.skippedDueToExclude = @ + 1]
    ELSE [acc EXCEPT !.visited = @ \cup {normalizedUrl},
                     !.toProcess = Append(@, item)]

\* (mutant) the filter tests the exclusion before the depth
FilterItemExcludeFirst(acc, item, cfg) ==
    LET normalizedUrl == normalizeUrl(item.url) IN
    IF normalizedUrl \in acc.visited THEN acc
    ELSE IF shouldExclude(normalizedUrl, cfg.excludePatterns)
         THEN [acc EXCEPT !.stats.skippedDueToExclude = @ + 1]
    ELSE IF item.depth > cfg.maxDepth
         THEN [acc EXCEPT !.stats.skippedDueToDepth = @ + 1]
    ELSE [acc EXCEPT !.visited = @ \cup {normalizedUrl},
                     !.toProcess = Append(@, item)]

\* one call of the batch.filter callback, on the state the calls before it
\* left: acc is {toProcess, visited, stats}
FilterItem(acc, item, cfg) ==
    LET normalizedUrl == normalizeUrl(item.url) IN
    IF normalizedUrl \in acc.visited THEN acc
    ELSE IF item.depth > cfg.maxDepth
         THEN [acc EXCEPT !.stats.skippedDueToDepth = @ + 1]
    ELSE IF shouldExclude(normalizedUrl, cfg.excludePatterns)
         THEN [acc EXCEPT !.stats.skippedDueToExclude = @ + 1]
    ELSE [acc EXCEPT !.visited = @ \cup {normalizedUrl},
                     !.toProcess = Append(@, item)]

RECURSIVE FilterBatch(_, _, _)
FilterBatch(acc, batch, cfg) ==
    IF batch = <<>> THEN acc
    ELSE Only({FilterItem(a, Last(batch), cfg) :
                 a \in {FilterBatch(acc, Front(batch), cfg)}})

\* (mutant) a child is queued at its parent's depth
EnqueueLinkParentDepth(q, link, crawledUrl, vis) ==
    LET normalizedLink == normalizeUrl(link) IN
    IF normalizedLink \notin vis
    THEN Append(q, Item(normalizedLink, crawledUrl.depth, crawledUrl.url))
    ELSE q

\* (mutant) queue.unshift instead of queue.push
EnqueueLinkUnshift(q, link, crawledUrl, vis) ==
    LET normalizedLink == normalizeUrl(link) IN
    IF normalizedLink \notin vis
    THEN <<Item(normalizedLink, crawledUrl.depth + 1, crawledUrl.url)>> \o q
    ELSE q

\* (mutant) the link is attributed to the page its parent was found on
EnqueueLinkFromGrandparent(q, link, crawledUrl, vis) ==
    LET normalizedLink == normalizeUrl(link) IN
    IF normalizedLink \notin vis
    THEN Append(q, Item(normalizedLink, crawledUrl.depth + 1, crawledUrl.discoveredFrom))
    ELSE q

\* the inner loop over result.links: acc is the queue
EnqueueLink(q, link, crawledUrl, vis) ==
    LET normalizedLink == normalizeUrl(link) IN
    IF normalizedLink \notin vis
    THEN Append(q, Item(normalizedLink, crawledUrl.depth + 1, crawledUrl.url))
    ELSE q

RECURSIVE EnqueueLinks(_, _, _, _)
EnqueueLinks(q, links, crawledUrl, vis) ==
    IF links = <<>> THEN q
    ELSE Only({EnqueueLink(a, Last(links), crawledUrl, vis) :
                 a \in {EnqueueLinks(q, Front(links), crawledUrl, vis)}})

\* (mutant) only a transport failure (status 0) counts as a failed crawl
ProcessResultCountsStatusZero(acc, result, vis) ==
    IF result = NoCrawl THEN acc
    ELSE
    [crawledUrls |-> Append(acc.crawledUrls, result.crawledUrl),
     stats |-> IF isSuccessStatus(result.crawledUrl.statusCode)
               THEN [acc.stats EXCEPT !.successfulCrawls = @ + 1]
               ELSE IF result.crawledUrl.statusCode = 0
                    THEN [acc.stats EXCEPT !.failedCrawls = @ + 1]
               ELSE acc.stats,
     queue |-> EnqueueLinks(acc.queue, result.links, result.crawledUrl, vis)]

\* one round of `for (const result of results)`: acc is
\* {crawledUrls, stats, queue}
ProcessResult(acc, result, vis) ==
    IF result = NoCrawl THEN acc          \* if (!result) continue
    ELSE
    [crawledUrls |-> Append(acc.crawledUrls, result.crawledUrl),
     stats |-> IF isSuccessStatus(result.crawledUrl.statusCode)
               THEN [acc.stats EXCEPT !.successfulCrawls = @ + 1]
               ELSE [acc.stats EXCEPT !.failedCrawls = @ + 1],
     queue |-> EnqueueLinks(acc.queue, result.links, result.crawledUrl, vis)]

\* (mutant) the loop over the results runs from the last to the first
RECURSIVE ProcessResultsBackwards(_, _, _)
ProcessResultsBackwards(acc, results, vis) ==
    IF results = <<>> THEN acc
    ELSE Only({ProcessResult(a, Head(results), vis) :
                 a \in {ProcessResultsBackwards(acc, Tail(results), vis)}})

RECURSIVE ProcessResults(_, _, _)
ProcessResults(acc, results, vis) ==
    IF results = <<>> THEN acc
    ELSE Only({ProcessResult(a, Last(results), vis) :
                 a \in {ProcessResults(acc, Front(results), vis)}})

\* the CrawlerOutput handed to fse.writeJson (times left out)
NoOutput == [written |-> FALSE]
Output(cfg, urls, st) ==
    [written |-> TRUE, sourceUrl |-> cfg.sourceUrl, urls |-> urls,
     stats |-> [totalUrls |-> Len(urls),
                successfulCrawls |-> st.successfulCrawls,
                failedCrawls |-> st.failedCrawls,
                skippedDueToDepth |-> st.skippedDueToDepth,
                skippedDueToExclude |-> st.skippedDueToExclude],
     config |-> cfg]

ZeroStats == [skippedDueToDepth |-> 0, skippedDueToExclude |-> 0,
              successfulCrawls |-> 0, failedCrawls |-> 0]

Phases(ts) == [i \in DOMAIN ts |-> ts[i].phase]

\* `while (queue.length > 0)` holds: splice a batch off the queue, filter
\* it, and hand what is left to the limiter (or go round at once)
CrawlTakeBatch ==
    /\ mode = "crawl" /\ pc = "loop" /\ queue # <<>>
    /\ LET batchSize == Min(Len(queue), config.concurrency * 2)
           batch == SubSeq(queue, 1, batchSize)
           f == FilterBatch([toProcess |-> <<>>, visited |-> visited, stats |-> stats],
                            batch, config)
       IN /\ queue' = SubSeq(queue, batchSize + 1, Len(queue))
          /\ visited' = f.visited
          /\ stats' = f.stats
          /\ toProcess' = f.toProcess
          /\ tasks' = [i \in DOMAIN f.toProcess |->
                          [phase |-> "pending", at |-> "", fetched |-> NoResult,
                           result |-> NoCrawl]]
          /\ pc' = IF f.toProcess = <<>> THEN "loop" ELSE "batch"
          /\ dequeueLog' = dequeueLog \o batch
    /\ UNCHANGED <<mode, cx, ux, tx, config, crawledUrls, output, fetchLog, settleLog, fx, sx, vx>>

\* the limiter starts a task: crawlUrl is called and its fetch is issued
CrawlTaskStart(i) ==
    /\ mode = "crawl" /\ pc = "batch"
    /\ i \in DOMAIN tasks
    /\ CanStart(Phases(tasks), i, config.concurrency)
    /\ tasks' = [tasks EXCEPT ![i].phase = "running", ![i].at = "fetch"]
    /\ fetchLog' = Append(fetchLog, toProcess[i].url)
    /\ UNCHANGED <<mode, cx, ux, tx, config, pc, queue, visited, crawledUrls, stats, toProcess,
                   output, dequeueLog, settleLog, fx, sx, vx>>

\* the fetch returns: crawlUrl builds its result, and the task sleeps
\* config.delay or settles
CrawlTaskFetched(i) ==
    /\ mode = "crawl" /\ pc = "batch"
    /\ i \in DOMAIN tasks
    /\ tasks[i].phase = "running" /\ tasks[i].at = "fetch"
    /\ \E r \in crawlFetchReturns(toProcess[i].url, config) :
        \E res \in {crawlUrl(toProcess[i], r, config)} :
          LET settles == res.thrown \/ config.delay <= 0
          IN /\ tasks' = [tasks EXCEPT
                            ![i].fetched = r,
                            ![i].result = res,
                            ![i].at = IF settles THEN "" ELSE "sleep",
                            ![i].phase = IF res.thrown THEN "rejected"
                                         ELSE IF settles THEN "fulfilled" ELSE "running"]
             /\ settleLog' = IF settles
                             THEN Append(settleLog, [item |-> toProcess[i], fetched |-> r])
                             ELSE settleLog
    /\ UNCHANGED <<mode, cx, ux, tx, config, pc, queue, visited, crawledUrls, stats, toProcess,
                   output, fetchLog, dequeueLog, fx, sx, vx>>

\* sleep(config.delay) is over: the task returns its result
CrawlTaskSlept(i) ==
    /\ mode = "crawl" /\ pc = "batch"
    /\ i \in DOMAIN tasks
    /\ tasks[i].phase = "running" /\ tasks[i].at = "sleep"
    /\ tasks' = [tasks EXCEPT ![i].phase = "fulfilled", ![i].at = ""]
    /\ settleLog' = Append(settleLog, [item |-> toProcess[i],
                                        fetched |-> tasks[i].fetched])
    /\ UNCHANGED <<mode, cx, ux, tx, config, pc, queue, visited, crawledUrls, stats, toProcess,
                   output, fetchLog, dequeueLog, fx, sx, vx>>

\* `await Promise.all(...)` is over: it rejects with the first rejection
\* (crawl then rejects, and the caller exits), or resolves with the results
\* in the order of toProcess and the loop over them runs
CrawlAwaitAll ==
    /\ mode = "crawl" /\ pc = "batch"
    /\ \/ \E i \in DOMAIN tasks : tasks[i].phase = "rejected"
       \/ AllFulfilled(Phases(tasks))
    /\ IF \E i \in DOMAIN tasks : tasks[i].phase = "rejected"
       THEN /\ pc' = "failed"
            /\ UNCHANGED <<crawledUrls, stats, queue, toProcess, tasks>>
       ELSE LET results == [i \in DOMAIN tasks |-> tasks[i].result]
                a == ProcessResults([crawledUrls |-> crawledUrls, stats |-> stats,
                                     queue |-> queue], results, visited)
            IN /\ crawledUrls' = a.crawledUrls
               /\ stats' = a.stats
               /\ queue' = a.queue
               /\ toProcess' = <<>>
               /\ tasks' = <<>>
               /\ pc' = "loop"
    /\ UNCHANGED <<mode, cx, ux, tx, config, visited, output, fetchLog, dequeueLog, settleLog, fx, sx, vx>>

\* the queue is empty: the output is built and written, and crawl returns
CrawlFinish ==
    /\ mode = "crawl" /\ pc = "loop" /\ queue = <<>>
    /\ output' = Output(config, crawledUrls, stats)
    /\ pc' = "done"
    /\ UNCHANGED <<mode, cx, ux, tx, config, queue, visited, crawledUrls, stats, toProcess, tasks,
                   fetchLog, dequeueLog, settleLog, fx, sx, vx>>

(***************************************************************************)
(* Text.  A string the classifier reads is a sequence of characters.  The  *)
(* regular expressions of utils/soft404.ts are sequences of terms: a       *)
(* literal, \s*, .*, or a choice between sub-patterns ((x)? is the choice  *)
(* between x and nothing); test() asks for a match anywhere in the text.   *)
(***************************************************************************)
NullText == <<"<null>">>                     \* a string | null that is null

UpperCase == <<"A", "B", "C", "D", "E", "F", "G", "H", "I", "J", "K", "L", "M",
               "N", "O", "P", "Q", "R", "S", "T", "U", "V", "W", "X", "Y", "Z">>
LowerCase == <<"a", "b", "c", "d", "e", "f", "g", "h", "i", "j", "k", "l", "m",
               "n", "o", "p", "q", "r", "s", "t", "u", "v", "w", "x", "y", "z">>
Digits == {"0", "1", "2", "3", "4", "5", "6", "7", "8", "9"}

\* a letter outside ASCII (E with an acute accent), in upper and in lower
\* case; each is one character
UpperAccented == "E-acute"
LowerAccented == "e-acute"

\* \s and \w of a JavaScript RegExp without the u flag, on the characters
\* the model uses: \w is [A-Za-z0-9_]
IsSpace(c) == c \in {" ", "\t", "\n"}
WordChars == Range(UpperCase) \cup Range(LowerCase) \cup Digits \cup {"_"}
IsWord(c) == c \in WordChars

LowerOf == [c \in Range(UpperCase) \cup {UpperAccented} |->
               IF c = UpperAccented THEN LowerAccented
               ELSE LowerCase[CHOOSE k \in DOMAIN UpperCase : UpperCase[k] = c]]

\* the sequence f as a tuple of its values: every element is evaluated
\* once, here, and not again at each later reading
AsSeq(f) == SubSeq(f, 1, Len(f))

\* String.prototype.toLowerCase
toLowerCase(s) ==
    AsSeq([i \in DOMAIN s |->
              IF s[i] \in DOMAIN LowerOf THEN LowerOf[s[i]] ELSE s[i]])

\* the characters of s at the positions that satisfy keep, in order
Kept(s, keep) ==
    LET sel == SelectSeq(AsSeq([i \in DOMAIN s |-> <<s[i], keep[i]>>]),
                         LAMBDA p : p[2])
    IN AsSeq([i \in DOMAIN sel |-> sel[i][1]])

\* s.replace(/\s+/g, ' ')
CollapseSpaces(s) ==
    Kept(AsSeq([i \in DOMAIN s |-> IF IsSpace(s[i]) THEN " " ELSE s[i]]),
         [i \in DOMAIN s |-> ~IsSpace(s[i]) \/ i = 1 \/ ~IsSpace(s[i - 1])])

\* String.prototype.trim
trim(s) ==
    IF \A i \in DOMAIN s : IsSpace(s[i]) THEN <<>>
    ELSE SubSeq(s,
                CHOOSE i \in DOMAIN s :
                   ~IsSpace(s[i]) /\ \A j \in 1..(i - 1) : IsSpace(s[j]),
                CHOOSE i \in DOMAIN s :
                   ~IsSpace(s[i]) /\ \A j \in (i + 1)..Len(s) : IsSpace(s[j]))

\* s.replace(/<[^>]*>/g, ''): a "<" opens a tag when a ">" follows it
\* somewhere; the tag ends at the first ">"
StripTags(s) ==
    LET \* position i lies inside a tag, its "<" and ">" included
        inTag(i) ==
            \E a \in 1..i :
               /\ s[a] = "<"
               /\ \A k \in a..(i - 1) : s[k] # ">"
               /\ \E j \in i..Len(s) : j > a /\ s[j] = ">"
    IN Kept(s, [i \in DOMAIN s |-> ~inTag(i)])

\* String.prototype.includes
includes(s, part) ==
    \E i \in 0..(Len(s) - Len(part)) : SubSeq(s, i + 1, i + Len(part)) = part

Repeat(s, n) == AsSeq([i \in 1..(n * Len(s)) |-> s[((i - 1) % Len(s)) + 1]])

Lit(chars) == [kind |-> "lit", chars |-> chars, subs |-> <<>>]
Ws == [kind |-> "ws", chars |-> <<>>, subs |-> <<>>]
AnyChars == [kind |-> "any", chars |-> <<>>, subs |-> <<>>]
Alt(subs) == [kind |-> "alt", chars |-> <<>>, subs |-> subs]
Opt(sub) == Alt(<<sub, <<>>>>)
Group(sub) == Alt(<<sub>>)

\* the positions of s at which a match of pattern p can end when it starts
\* at one of the positions in from (a position is the number of characters
\* before it)
RECURSIVE MatchEnds(_, _, _)
MatchEnds(p, s, from) ==
    IF p = <<>> \/ from = {} THEN from
    ELSE LET e == Head(p)
             run(i, ok(_)) == {j \in i..Len(s) : \A k \in (i + 1)..j : ok(s[k])}
             next ==
               CASE e.kind = "lit" ->
                      {i + Len(e.chars) : i \in
                         {i \in from : /\ i + Len(e.chars) <= Len(s)
                                       /\ s[i + 1] = e.chars[1]
                                       /\ SubSeq(s, i + 1, i + Len(e.chars)) = e.chars}}
                 [] e.kind = "ws" ->
                      UNION {run(i, LAMBDA c : IsSpace(c)) : i \in from}
                 [] e.kind = "any" ->
                      UNION {run(i, LAMBDA c : c # "\n") : i \in from}
                 [] e.kind = "alt" ->
                      UNION {MatchEnds(e.subs[n], s, from) : n \in DOMAIN e.subs}
         IN Only({MatchEnds(Tail(p), s, a) : a \in {next}})

\* pattern.test(s) for a pattern with the i flag: case is folded first
RegExpTest(p, s) == MatchEnds(p, toLowerCase(s), 0..Len(s)) # {}

BODY_ERROR_PATTERNS ==
    <<
      \* /page\s*not\s*found/i
      <<Lit(<<"p", "a", "g", "e">>), Ws, Lit(<<"n", "o", "t">>), Ws,
          Lit(<<"f", "o", "u", "n", "d">>)>>,
      \* /404\s*(error)?/i
      <<Lit(<<"4", "0", "4">>), Ws, Opt(<<Lit(<<"e", "r", "r", "o",
          "r">>)>>)>>,
      \* /not\s*found/i
      <<Lit(<<"n", "o", "t">>), Ws, Lit(<<"f", "o", "u", "n", "d">>)>>,
      \* /doesn'?t\s*exist/i
      <<Lit(<<"d", "o", "e", "s", "n">>), Opt(<<Lit(<<"'">>)>>),
          Lit(<<"t">>), Ws, Lit(<<"e", "x", "i", "s", "t">>)>>,
      \* /does\s*not\s*exist/i
      <<Lit(<<"d", "o", "e", "s">>), Ws, Lit(<<"n", "o", "t">>), Ws,
          Lit(<<"e", "x", "i", "s", "t">>)>>,
      \* /no\s*longer\s*(available|exists?)/i
      <<Lit(<<"n", "o">>), Ws, Lit(<<"l", "o", "n", "g", "e", "r">>), Ws,
          Group(<<Alt(<<<<Lit(<<"a", "v", "a", "i", "l", "a", "b", "l",
          "e">>)>>, <<Lit(<<"e", "x", "i", "s", "t">>),
          Opt(<<Lit(<<"s">>)>>)>>>>)>>)>>,
      \* /cannot\s*be\s*found/i
      <<Lit(<<"c", "a", "n", "n", "o", "t">>), Ws, Lit(<<"b", "e">>), Ws,
          Lit(<<"f", "o", "u", "n", "d">>)>>,
      \* /could\s*not\s*(be\s*)?found/i
      <<Lit(<<"c", "o", "u", "l", "d">>), Ws, Lit(<<"n", "o", "t">>), Ws,
          Opt(<<Lit(<<"b", "e">>), Ws>>), Lit(<<"f", "o", "u", "n", "d">>)>>,
      \* /we\s*couldn'?t\s*find/i
      <<Lit(<<"w", "e">>), Ws, Lit(<<"c", "o", "u", "l", "d", "n">>),
          Opt(<<Lit(<<"'">>)>>), Lit(<<"t">>), Ws, Lit(<<"f", "i", "n",
          "d">>)>>,
      \* /page\s*(you('?re)?\s*(looking\s*for\s*)?)?is\s*missing/i
      <<Lit(<<"p", "a", "g", "e">>), Ws, Opt(<<Lit(<<"y", "o", "u">>),
          Opt(<<Opt(<<Lit(<<"'">>)>>), Lit(<<"r", "e">>)>>), Ws,
          Opt(<<Lit(<<"l", "o", "o", "k", "i", "n", "g">>), Ws, Lit(<<"f",
          "o", "r">>), Ws>>)>>), Lit(<<"i", "s">>), Ws, Lit(<<"m", "i", "s",
          "s", "i", "n", "g">>)>>,
      \* /this\s*page\s*(has\s*been\s*)?(moved|removed|deleted)/i
      <<Lit(<<"t", "h", "i", "s">>), Ws, Lit(<<"p", "a", "g", "e">>), Ws,
          Opt(<<Lit(<<"h", "a", "s">>), Ws, Lit(<<"b", "e", "e", "n">>),
          Ws>>), Group(<<Alt(<<<<Lit(<<"m", "o", "v", "e", "d">>)>>,
          <<Lit(<<"r", "e", "m", "o", "v", "e", "d">>)>>, <<Lit(<<"d", "e",
          "l", "e", "t", "e", "d">>)>>>>)>>)>>,
      \* /oops/i
      <<Lit(<<"o", "o", "p", "s">>)>>,
      \* /sorry.*page/i
      <<Lit(<<"s", "o", "r", "r", "y">>), AnyChars, Lit(<<"p", "a", "g",
          "e">>)>>,
      \* /nothing\s*(here|found)/i
      <<Lit(<<"n", "o", "t", "h", "i", "n", "g">>), Ws,
          Group(<<Alt(<<<<Lit(<<"h", "e", "r", "e">>)>>, <<Lit(<<"f", "o",
          "u", "n", "d">>)>>>>)>>)>>
    >>

TITLE_ERROR_PATTERNS ==
    <<
      \* /404/i
      <<Lit(<<"4", "0", "4">>)>>,
      \* /not\s*found/i
      <<Lit(<<"n", "o", "t">>), Ws, Lit(<<"f", "o", "u", "n", "d">>)>>,
      \* /page\s*not\s*found/i
      <<Lit(<<"p", "a", "g", "e">>), Ws, Lit(<<"n", "o", "t">>), Ws,
          Lit(<<"f", "o", "u", "n", "d">>)>>,
      \* /error/i
      <<Lit(<<"e", "r", "r", "o", "r">>)>>,
      \* /missing/i
      <<Lit(<<"m", "i", "s", "s", "i", "n", "g">>)>>,
      \* /oops/i
      <<Lit(<<"o", "o", "p", "s">>)>>
    >>

(***************************************************************************)
(* utils/soft404.ts.  A confidence is held in hundredths.                  *)
(***************************************************************************)
Soft404CheckResult(isSoft404, confidence, reasons) ==
    [isSoft404 |-> isSoft404, confidence |-> confidence, reasons |-> reasons]

\* JavaScript truthiness of a string | null
TruthyText(t) == t # NullText /\ t # <<>>

MIN_CONTENT_LENGTH == 500
SOFT_404_THRESHOLD == 50

\* (mutant) the body adds 0.3 however many patterns match
BodyScoreFlat(bodyMatchCount) == 30

\* Math.min(0.3 + (bodyMatchCount * 0.1), 0.5), in hundredths
BodyScore(bodyMatchCount) == Min(30 + (bodyMatchCount * 10), 50)

\* (mutant) the loop over the title patterns has no break
Soft404ScoreEveryTitlePattern(body, title) ==
    [title |-> IF TruthyText(title)
               THEN 40 * Cardinality({i \in DOMAIN TITLE_ERROR_PATTERNS :
                                         RegExpTest(TITLE_ERROR_PATTERNS[i], title)})
               ELSE 0,
     body |-> 0,
     length |-> IF Len(body) < MIN_CONTENT_LENGTH THEN 20 ELSE 0,
     text |-> 0]

\* checkSoft404, the four places that add to `score`: what each adds
Soft404Score(body, title) ==
    LET titleHit == /\ TruthyText(title)
                    /\ \E i \in DOMAIN TITLE_ERROR_PATTERNS :
                          RegExpTest(TITLE_ERROR_PATTERNS[i], title)
        contentLength == Len(body)
        textContent == trim(CollapseSpaces(StripTags(body)))
    IN Only({[title |-> IF titleHit THEN 40 ELSE 0,
              body |-> IF bodyMatchCount > 0 THEN BodyScore(bodyMatchCount) ELSE 0,
              length |-> IF contentLength < MIN_CONTENT_LENGTH THEN 20 ELSE 0,
              text |-> IF Len(textContent) < 100 THEN 30 ELSE 0] :
             bodyMatchCount \in
                {Cardinality({i \in DOMAIN BODY_ERROR_PATTERNS :
                                 RegExpTest(BODY_ERROR_PATTERNS[i], bodyLower)}) :
                    bodyLower \in {toLowerCase(body)}}})

\* (mutant) only a real 404 is left alone: every other status is scored
checkSoft404ScoresAnyStatus(body, title, statusCode) ==
    IF statusCode = 404 THEN Soft404CheckResult(FALSE, 0, <<>>)
    ELSE Only({Soft404CheckResult(
                   Min(added.title + added.body + added.length + added.text, 100)
                      >= SOFT_404_THRESHOLD,
                   Min(added.title + added.body + added.length + added.text, 100),
                   <<"scored">>) :
               added \in {Soft404Score(body, title)}})

\* checkSoft404(body, title, statusCode)
checkSoft404(body, title, statusCode) ==
    IF statusCode = 404 THEN Soft404CheckResult(FALSE, 0, <<>>)
    ELSE IF statusCode # 200 THEN Soft404CheckResult(FALSE, 0, <<>>)
    ELSE
    Only({Soft404CheckResult(
              Min(added.title + added.body + added.length + added.text, 100)
                 >= SOFT_404_THRESHOLD,
              Min(added.title + added.body + added.length + added.text, 100),
              (IF added.title > 0 THEN <<"Title matches error pattern">> ELSE <<>>)
              \o (IF added.body > 0 THEN <<"Body contains error indicator">> ELSE <<>>)
              \o (IF added.length > 0 THEN <<"Short content length">> ELSE <<>>)
              \o (IF added.text > 0 THEN <<"Very little text content">> ELSE <<>>)) :
          added \in {Soft404Score(body, title)}})

\* the local `normalize` of titlesMatch
normalize(title) ==
    LET spaced == CollapseSpaces(toLowerCase(title))
    IN trim(SelectSeq(spaced, LAMBDA c : IsWord(c) \/ IsSpace(c)))

\* a similarity is the fraction num / den
Fraction(num, den) == [num |-> num, den |-> den]

\* (mutant) every bigram of s2 that occurs in s1 counts, however often
calculateSimilarityBySet(s1, s2) ==
    IF s1 = s2 THEN Fraction(1, 1)
    ELSE IF Len(s1) < 2 \/ Len(s2) < 2 THEN Fraction(0, 1)
    ELSE Fraction(2 * Cardinality({i \in 1..(Len(s2) - 1) :
                         \E j \in 1..(Len(s1) - 1) :
                            SubSeq(s1, j, j + 1) = SubSeq(s2, i, i + 1)}),
                  Len(s1) + Len(s2) - 2)

\* calculateSimilarity(s1, s2): loop[i] is {bigrams1, intersectionSize}
\* after i rounds of the second for loop
calculateSimilarity(s1, s2) ==
    IF s1 = s2 THEN Fraction(1, 1)
    ELSE IF Len(s1) < 2 \/ Len(s2) < 2 THEN Fraction(0, 1)
    ELSE
    LET b1 == AsSeq([i \in 1..(Len(s1) - 1) |-> SubSeq(s1, i, i + 1)])
        b2 == AsSeq([i \in 1..(Len(s2) - 1) |-> SubSeq(s2, i, i + 1)])
        loop[i \in 0..Len(b2)] ==
            IF i = 0
            THEN [bigrams1 |-> [b \in Range(b1) |->
                                   Cardinality({k \in DOMAIN b1 : b1[k] = b})],
                  intersectionSize |-> 0]
            ELSE LET prev == loop[i - 1]
                     count == IF b2[i] \in DOMAIN prev.bigrams1
                              THEN prev.bigrams1[b2[i]] ELSE 0
                 IN IF count > 0
                    THEN [bigrams1 |-> [prev.bigrams1 EXCEPT ![b2[i]] = count - 1],
                          intersectionSize |-> prev.intersectionSize + 1]
                    ELSE prev
    IN Fraction(2 * loop[Len(b2)].intersectionSize, Len(s1) + Len(s2) - 2)

\* (mutant) a title that is absent matches any title
titlesMatchLenient(sourceTitle, destTitle) ==
    IF ~TruthyText(sourceTitle) \/ ~TruthyText(destTitle) THEN TRUE
    ELSE normalize(sourceTitle) = normalize(destTitle)

\* (mutant) titlesMatch without the test for one title containing the other
titlesMatchNoContainment(sourceTitle, destTitle) ==
    IF ~TruthyText(sourceTitle) /\ ~TruthyText(destTitle) THEN TRUE
    ELSE IF ~TruthyText(sourceTitle) \/ ~TruthyText(destTitle) THEN FALSE
    ELSE
    LET normalizedSource == normalize(sourceTitle)
        normalizedDest == normalize(destTitle)
        similarity == calculateSimilarity(normalizedSource, normalizedDest)
    IN \/ normalizedSource = normalizedDest
       \/ 10 * similarity.num > 8 * similarity.den

\* titlesMatch(sourceTitle, destTitle); similarity > 0.8 is 10 * num > 8 * den
titlesMatch(sourceTitle, destTitle) ==
    IF ~TruthyText(sourceTitle) /\ ~TruthyText(destTitle) THEN TRUE
    ELSE IF ~TruthyText(sourceTitle) \/ ~TruthyText(destTitle) THEN FALSE
    ELSE
    LET normalizedSource == normalize(sourceTitle)
        normalizedDest == normalize(destTitle)
        similarity == calculateSimilarity(normalizedSource, normalizedDest)
    IN \/ normalizedSource = normalizedDest
       \/ includes(normalizedDest, normalizedSource)
       \/ includes(normalizedSource, normalizedDest)
       \/ 10 * similarity.num > 8 * similarity.den

(***************************************************************************)
(* validator.ts.  The destination serves a page as a title and a body      *)
(* text: what cheerio finds in <title> and in <body>.                      *)
(***************************************************************************)
Issue(type, message) == [type |-> type, message |-> message]
NoStatusCode == -1                           \* destinationStatusCode: null

LoremIpsum == Repeat(<<"l", "o", "r", "e", "m", " ", "i", "p", "s", "u", "m", " ">>, 10)

DestPage(body) ==
    CASE body = "x" ->
           [title |-> <<" ", "F", "o", "o", " ", "-", " ", "B", "a", "r", " ">>,
            text |-> LoremIpsum]
      [] body = "y" ->
           [title |-> <<"P", "a", "g", "e", " ", "y">>, text |-> LoremIpsum]
      [] body = "z" ->
           [title |-> <<"N", "e", "w", " ", "H", "o", "m", "e">>, text |-> LoremIpsum]
      [] body = "m" ->
           [title |-> <<"F", "o", "o", " ", "|", " ", "M", "y", "S", "i", "t", "e">>,
            text |-> LoremIpsum]
      [] body = "thin" ->
           [title |-> <<"F", "o", "o", " ", "-", " ", "B", "a", "r">>,
            text |-> <<"C", "o", "m", "i", "n", "g", " ", "s", "o", "o", "n", ".">>]
      [] body = "gone" ->
           [title |-> <<"P", "a", "g", "e", " ", "N", "o", "t", " ", "F", "o", "u", "n", "d">>,
            text |->
              <<"S", "o", "r", "r", "y", ",", " ", "t", "h", "i", "s", " ",
                "p", "a", "g", "e", " ", "c", "o", "u", "l", "d", " ", "n",
                "o", "t", " ", "b", "e", " ", "f", "o", "u", "n", "d", ".">>]
      [] OTHER -> [title |-> <<>>, text |-> <<>>]

\* joinUrl(baseUrl, path) = new URL(path, baseUrl).href for an absolute path
joinUrl(baseUrl, path) == URL(baseUrl.host, path.path, path.query, "")
\* extractTitle(html)
extractTitle(body) ==
    IF trim(DestPage(body).title) = <<>> THEN NullText ELSE trim(DestPage(body).title)
\* extractBodyText(html)
extractBodyText(body) == trim(CollapseSpaces(DestPage(body).text))
isServerErrorStatus(statusCode) == statusCode >= 500 /\ statusCode < 600

Escalate(status) == IF status = "ok" THEN "warning" ELSE status

\* (mutant) a failed fetch is reported as a warning
FetchErrorResultAsWarning(path, sourceTitle, destUrl, result) ==
    [sourcePath |-> path, sourceTitle |-> sourceTitle, destinationUrl |-> destUrl,
     destinationStatusCode |-> NoStatusCode, destinationTitle |-> NullText,
     status |-> "warning", issues |-> <<Issue("error", result.error)>>]

\* validateUrl, `if (result.error)`
FetchErrorResult(path, sourceTitle, destUrl, result) ==
    [sourcePath |-> path, sourceTitle |-> sourceTitle, destinationUrl |-> destUrl,
     destinationStatusCode |-> NoStatusCode, destinationTitle |-> NullText,
     status |-> "error", issues |-> <<Issue("error", result.error)>>]

\* the checks of validateUrl, each on the {status, issues} the checks
\* before it left
NotFoundCheck(acc, result) ==
    IF result.statusCode = 404
    THEN [status |-> "error",
          issues |-> Append(acc.issues, Issue("not_found", "404 Not Found"))]
    ELSE acc

ServerErrorCheck(acc, result) ==
    IF isServerErrorStatus(result.statusCode)
    THEN [status |-> "error",
          issues |-> Append(acc.issues,
                        Issue("server_error",
                              "Server error: " \o ToString(result.statusCode)))]
    ELSE acc

\* (mutant) a redirect sets the status to warning
RedirectCheckOverwrites(acc, destUrl, result) ==
    IF result.wasRedirected /\ destUrl.path # result.finalUrl.path
    THEN [status |-> "warning",
          issues |-> Append(acc.issues, Issue("redirect", "Redirected"))]
    ELSE acc

RedirectCheck(acc, destUrl, result) ==
    IF result.wasRedirected /\ destUrl.path # result.finalUrl.path
    THEN [status |-> Escalate(acc.status),
          issues |-> Append(acc.issues, Issue("redirect", "Redirected"))]
    ELSE acc

Soft404Check(acc, result, destTitle, bodyText) ==
    IF /\ isSuccessStatus(result.statusCode)
       /\ checkSoft404(bodyText, destTitle, result.statusCode).isSoft404
    THEN [status |-> "error",
          issues |-> Append(acc.issues, Issue("soft_404", "Soft 404 detected"))]
    ELSE acc

\* (mutant) the titles are compared whatever the status
TitleCheckAlways(acc, sourceTitle, destTitle) ==
    IF TruthyText(sourceTitle) /\ TruthyText(destTitle)
       /\ ~titlesMatch(sourceTitle, destTitle)
    THEN [status |-> Escalate(acc.status),
          issues |-> Append(acc.issues, Issue("title_mismatch", "Title mismatch"))]
    ELSE acc

TitleCheck(acc, sourceTitle, destTitle) ==
    IF TruthyText(sourceTitle) /\ TruthyText(destTitle) /\ acc.status # "error"
       /\ ~titlesMatch(sourceTitle, destTitle)
    THEN [status |-> Escalate(acc.status),
          issues |-> Append(acc.issues, Issue("title_mismatch", "Title mismatch"))]
    ELSE acc

\* {status, issues} at the start of the checks and after each of them
ValidateChecks(sourceTitle, destUrl, result) ==
    LET destTitle == extractTitle(result.body)
        bodyText == extractBodyText(result.body)
        a1 == NotFoundCheck([status |-> "ok", issues |-> <<>>], result)
        a2 == ServerErrorCheck(a1, result)
        a3 == RedirectCheck(a2, destUrl, result)
    IN Only({<<[status |-> "ok", issues |-> <<>>], a1, a2, a3, a4,
               TitleCheck(a4, sourceTitle, destTitle)>> :
             a4 \in {Soft404Check(a3, result, destTitle, bodyText)}})

\* what validateUrl returns when its checks have left `checks`
ValidationResult(path, sourceTitle, destUrl, result, checks) ==
    [sourcePath |-> path, sourceTitle |-> sourceTitle,
     destinationUrl |-> destUrl,
     destinationStatusCode |-> result.statusCode,
     destinationTitle |-> extractTitle(result.body),
     status |-> Last(checks).status, issues |-> Last(checks).issues]

\* a run of validateUrl after its fetch has returned `result`: the value
\* it returns and the values its local `status` has held, in order
validateUrlRun(path, sourceTitle, destinationUrl, result) ==
    LET destUrl == joinUrl(destinationUrl, path) IN
    IF Truthy(result.error)
    THEN [returns |-> FetchErrorResult(path, sourceTitle, destUrl, result),
          statuses |-> <<"ok">>]
    ELSE Only({[returns |-> ValidationResult(path, sourceTitle, destUrl, result, checks),
                statuses |-> AsSeq([n \in DOMAIN checks |-> checks[n].status])] :
               checks \in {ValidateChecks(sourceTitle, destUrl, result)}})

\* validateUrl after its fetch has returned `result`
validateUrl(path, sourceTitle, destinationUrl, result) ==
    validateUrlRun(path, sourceTitle, destinationUrl, result).returns


CountIssues(results, type) ==
    LET n[k \in 0..Len(results)] ==
            IF k = 0 THEN 0
            ELSE n[k - 1] + Cardinality({j \in DOMAIN results[k].issues :
                                            results[k].issues[j].type = type})
    IN n[Len(results)]
CountStatus(results, status) ==
    Cardinality({k \in DOMAIN results : results[k].status = status})

\* calculateSummary(results, durationMs)
calculateSummary(results) ==
    [totalUrls |-> Len(results),
     okUrls |-> CountStatus(results, "ok"),
     warningUrls |-> CountStatus(results, "warning"),
     errorUrls |-> CountStatus(results, "error"),
     soft404Count |-> CountIssues(results, "soft_404"),
     notFoundCount |-> CountIssues(results, "not_found"),
     serverErrorCount |-> CountIssues(results, "server_error"),
     titleMismatchCount |-> CountIssues(results, "title_mismatch"),
     redirectCount |-> CountIssues(results, "redirect")]

\* (mutant) the comparator puts ok first and error last
SortBySeverityReversed(results) ==
    SelectSeq(results, LAMBDA r : r.status = "ok")
    \o SelectSeq(results, LAMBDA r : r.status = "warning")
    \o SelectSeq(results, LAMBDA r : r.status = "error")

\* results.sort by {error: 0, warning: 1, ok: 2}; Array.prototype.sort is stable
SortBySeverity(results) ==
    SelectSeq(results, LAMBDA r : r.status = "error")
    \o SelectSeq(results, LAMBDA r : r.status = "warning")
    \o SelectSeq(results, LAMBDA r : r.status = "ok")

DestinationUrl == URL("new.a.com", Root, <<>>, "")

\* crawlerOutput.urls[i], as far as validate reads it
InputUrl(i) ==
    CASE i % 3 = 1 -> [path |-> getUrlPath(A(P("x"), <<>>, "")),
                       title |-> <<"F", "o", "o">>]
      [] i % 3 = 2 -> [path |-> getUrlPath(A(P("y"), <<>>, "")),
                       title |-> NullText]
      [] i % 3 = 0 -> [path |-> getUrlPath(A(P("z"), <<>>, "")),
                       title |-> <<"O", "l", "d", " ", "T", "i", "t", "l", "e">>]

IdleValidate ==
    [urls |-> <<>>, concurrency |-> 0, destinationUrl |-> NullUrl, timeout |-> 0,
     redirectHandling |-> "warning",
     phase |-> <<>>, results |-> <<>>, processed |-> 0, pc |-> "idle",
     log |-> <<>>,      \* history: each run of validateUrl, in order of return
     report |-> [written |-> FALSE]]

\* validate(config) up to `await Promise.all`: every url goes to the limiter
ValidateEnter ==
    /\ mode = "validate" /\ vx.pc = "start"
    /\ vx' = [vx EXCEPT !.phase = [i \in DOMAIN vx.urls |-> "pending"],
                        !.pc = "await"]
    /\ UNCHANGED <<mode, cx, ux, tx, crawlVars, fx, sx>>

\* the limiter starts a task: validateUrl is called and its fetch is issued
ValidateStart(i) ==
    /\ mode = "validate" /\ vx.pc = "await"
    /\ i \in DOMAIN vx.phase
    /\ CanStart(vx.phase, i, vx.concurrency)
    /\ vx' = [vx EXCEPT !.phase[i] = "running"]
    /\ UNCHANGED <<mode, cx, ux, tx, crawlVars, fx, sx>>

\* (mutant) a task writes its record over the one pushed last
pushOverLast(results, result) ==
    IF results = <<>> THEN <<result>> ELSE [results EXCEPT ![Len(results)] = result]

\* results.push(result)
push(results, result) == Append(results, result)

\* the fetch returns: validateUrl builds its result, and the task pushes
\* it, counts it and returns
ValidateDone(i) ==
    /\ mode = "validate" /\ vx.pc = "await"
    /\ i \in DOMAIN vx.phase
    /\ vx.phase[i] = "running"
    /\ LET u == vx.urls[i]
           destUrl == joinUrl(vx.destinationUrl, u.path)
       IN \E r \in fetchUrlReturns("dest", destUrl, vx.timeout, 1) :
          \E run \in {validateUrlRun(u.path, u.title, vx.destinationUrl, r)} :
             vx' = [vx EXCEPT !.phase[i] = "fulfilled",
                              !.results = push(@, run.returns),
                              !.log = Append(@, [sourceTitle |-> u.title,
                                                 fetched |-> r,
                                                 result |-> run.returns,
                                                 statuses |-> run.statuses]),
                              !.processed = @ + 1]
    /\ UNCHANGED <<mode, cx, ux, tx, crawlVars, fx, sx>>

\* `await Promise.all` is over: the summary is computed, the results are
\* sorted in place, the report is written and validate returns
ValidateReport ==
    /\ mode = "validate" /\ vx.pc = "await"
    /\ AllFulfilled(vx.phase)
    /\ LET sorted == SortBySeverity(vx.results)
       IN vx' = [vx EXCEPT !.results = sorted,
                           !.report = [written |-> TRUE,
                                       summary |-> calculateSummary(vx.results),
                                       results |-> sorted],
                           !.pc = "done"]
    /\ UNCHANGED <<mode, cx, ux, tx, crawlVars, fx, sx>>

(***************************************************************************)
(* normalizeUrl on its own: it is applied to ux.u and to ux.v, and then    *)
(* to its own result, as the crawl does when it takes an item it queued    *)
(* (crawler.ts 117 and 60).                                                *)
(***************************************************************************)
IdleUrl == [pc |-> "idle", u |-> NullUrl, v |-> NullUrl,
            nu |-> NullUrl, nv |-> NullUrl, nnu |-> NullUrl]

RECURSIVE Slashes(_)
Slashes(n) == IF n = 0 THEN <<>> ELSE Append(Slashes(n - 1), "/")

\* pathnames: "/", "//" ... and "/e", "/e/", "/e//" ...
Pathnames ==
    {Slashes(n) : n \in 1..MaxSlashes} \cup {P("e") \o Slashes(n) : n \in 0..MaxSlashes}

UrlInputs ==
    {URL("a.com", p, q, f) :
        p \in Pathnames, q \in {<<>>, <<"x", "y">>, <<"y", "x">>, <<"z", "y", "x">>},
        f \in {"", "top"}}

NormalizeFirst ==
    /\ mode = "url" /\ ux.pc = "start"
    /\ ux' = [ux EXCEPT !.pc = "once",
                        !.nu = normalizeUrl(ux.u), !.nv = normalizeUrl(ux.v)]
    /\ UNCHANGED <<mode, cx, tx, crawlVars, fx, sx, vx>>

NormalizeAgain ==
    /\ mode = "url" /\ ux.pc = "once"
    /\ ux' = [ux EXCEPT !.pc = "twice", !.nnu = normalizeUrl(ux.nu)]
    /\ UNCHANGED <<mode, cx, tx, crawlVars, fx, sx, vx>>

(***************************************************************************)
(* checkSoft404, titlesMatch and calculateSimilarity on their own: tx      *)
(* holds the arguments of one call and, once it has returned, its result.  *)
(***************************************************************************)
IdleText ==
    [pc |-> "idle", body |-> <<>>, title |-> NullText, statusCode |-> 0,
     check |-> Soft404CheckResult(FALSE, 0, <<>>),
     sourceTitle |-> NullText, destTitle |-> NullText, match |-> FALSE,
     similarity |-> Fraction(0, 1), reversed |-> Fraction(0, 1)]

BodyInputs ==
    {<<>>,
     <<"S", "o", "r", "r", "y", ",", " ", "t", "h", "i", "s", " ", "p", "a", "g",
      "e", " ", "c", "o", "u", "l", "d", " ", "n", "o", "t", " ", "b", "e",
      " ", "f", "o", "u", "n", "d", ".">>,
     <<"O", "o", "p", "s">>,
     <<"P", "A", "G", "E", " ", "N", "O", "T", " ", "F", "O", "U", "N", "D">>,
     <<"N", "o", "t", "h", "i", "n", "g", " ", "h", "e", "r", "e", ".", " ", "W",
      "e", " ", "c", "o", "u", "l", "d", "n", "'", "t", " ", "f", "i", "n",
      "d", " ", "i", "t", ",", " ", "o", "o", "p", "s", "!">>,
     LoremIpsum,
     Repeat(<<"l", "o", "r", "e", "m", " ">>, 100),
     Repeat(<<"l", "o", "r", "e", "m", " ">>, 100)
       \o <<"4", "0", "4", " ", "e", "r", "r", "o", "r", ":", " ", "p", "a", "g", "e",
          " ", "n", "o", "t", " ", "f", "o", "u", "n", "d", ",", " ", "i",
          "t", " ", "d", "o", "e", "s", " ", "n", "o", "t", " ", "e", "x",
          "i", "s", "t">>,
     Repeat(<<"<", "b", "r", ">">>, 130) \o <<"W", "e", "l", "c", "o", "m", "e">>}

SoftTitleInputs ==
    {NullText, <<>>,
     <<"4", "0", "4", " ", "E", "r", "r", "o", "r">>,
     <<"H", "o", "m", "e">>,
     <<"P", "a", "g", "e", " ", "N", "o", "t", " ", "F", "o", "u", "n", "d">>,
     <<"S", "o", "m", "e", "t", "h", "i", "n", "g", " ", "i", "s", " ", "M", "I",
      "S", "S", "I", "N", "G">>}

StatusCodes == {200, 201, 204, 404, 500}

TitleInputs ==
    {NullText,
     <<>>,
     <<UpperAccented, "a">>,
     <<"A", "b", "o", "u", "t", " ", "U", "s">>,
     <<"A", "b", "o", "u", "t", " ", "U", "s", " ", "|", " ", "M", "y", "S", "i",
      "t", "e">>,
     <<"C", "o", "n", "t", "a", "c", "t">>,
     <<"H", "o", "m", "e">>,
     <<"a", "_", "b">>,
     <<"a", "b">>,
     <<"h", "e", "l", "l", "o", " ", "w", "o", "r", "l", "d">>,
     <<"h", "e", "l", "l", "o", " ", "w", "r", "l", "d">>,
     <<"a", " ", "|", " ", "b">>,
     <<"a", " ", "b">>,
     <<"a", "a", "a">>,
     <<"a", "a">>,
     <<"a">>,
     <<"?", "!">>,
     <<" ", " ", "H", "O", "M", "E", " ", " ">>}

Soft404Call ==
    /\ mode = "soft404" /\ tx.pc = "call"
    /\ tx' = [tx EXCEPT !.pc = "returned",
                        !.check = checkSoft404(tx.body, tx.title, tx.statusCode)]
    /\ UNCHANGED <<mode, cx, crawlVars, fx, sx, vx, ux>>

TitlesMatchCall ==
    /\ mode = "titles" /\ tx.pc = "call"
    /\ tx' = [tx EXCEPT !.pc = "matched",
                        !.match = titlesMatch(tx.sourceTitle, tx.destTitle)]
    /\ UNCHANGED <<mode, cx, crawlVars, fx, sx, vx, ux>>

\* calculateSimilarity on the normalized titles, in both orders
SimilarityCall ==
    /\ mode = "titles" /\ tx.pc = "matched"
    /\ TruthyText(tx.sourceTitle) /\ TruthyText(tx.destTitle)
    /\ \E s1 \in {normalize(tx.sourceTitle)}, s2 \in {normalize(tx.destTitle)} :
          tx' = [tx EXCEPT !.pc = "returned",
                           !.similarity = calculateSimilarity(s1, s2),
                           !.reversed = calculateSimilarity(s2, s1)]
    /\ UNCHANGED <<mode, cx, crawlVars, fx, sx, vx, ux>>


(***************************************************************************)
(* index.ts, the action of the crawl command.  An option is the string the *)
(* command line gave (or commander's default); a number is either NaN or   *)
(* an integer.                                                             *)
(***************************************************************************)
NaN == [nan |-> TRUE, value |-> 0]
Number(n) == [nan |-> FALSE, value |-> n]
isNaN(x) == x.nan
DigitValue(c) == CHOOSE n \in 0..9 : ToString(n) = c

\* parseInt(s, 10): leading whitespace is skipped, a sign is read, then the
\* longest run of digits; what follows is ignored, and no digit gives NaN
parseInt(s) ==
    LET first == IF \E k \in DOMAIN s : ~IsSpace(s[k])
                 THEN CHOOSE k \in DOMAIN s :
                         ~IsSpace(s[k]) /\ \A j \in 1..(k - 1) : IsSpace(s[j])
                 ELSE Len(s) + 1
        t == SubSeq(s, first, Len(s))
        signed == t # <<>> /\ t[1] \in {"-", "+"}
        body == IF signed THEN Tail(t) ELSE t
        n == CHOOSE k \in 0..Len(body) :
                /\ \A j \in 1..k : body[j] \in Digits
                /\ k < Len(body) => body[k + 1] \notin Digits
        val[k \in 0..n] ==
            IF k = 0 THEN 0 ELSE (10 * val[k - 1]) + DigitValue(body[k])
    IN IF n = 0 THEN NaN
       ELSE Number(IF t[1] = "-" THEN 0 - val[n] ELSE val[n])

\* new URL(options.url).protocol, or "" when the constructor throws
ProtocolOf(url) ==
    CASE url = "https://a.com" -> "https:"
      [] url = "ftp://a.com"   -> "ftp:"
      [] OTHER                 -> ""

NoConfig == [sourceUrl |-> "", maxDepth |-> NaN, concurrency |-> NaN,
             timeout |-> NaN, delay |-> NaN, renderer |-> ""]

IdleCli == [pc |-> "idle", options |-> [url |-> "", maxDepth |-> <<>>,
                                        concurrency |-> <<>>, timeout |-> <<>>,
                                        delay |-> <<>>, renderer |-> ""],
            config |-> NoConfig, exitCode |-> 0]

UrlOptions == {"https://a.com", "ftp://a.com", "a.com"}
MaxDepthOptions ==
    {<<"1", "0">>,
     <<"0">>,
     <<"-", "1">>,
     <<"d", "e", "e", "p">>,
     <<"3", "a", "b", "c">>}
ConcurrencyOptions ==
    {<<"5">>,
     <<"0">>,
     <<"-", "2">>,
     <<"m", "a", "n", "y">>}
TimeoutOptions ==
    {<<"1", "0", "0", "0", "0">>,
     <<"0">>,
     <<"-", "5">>,
     <<"t", "e", "n">>}
RendererOptions == {"static", "flaresolverr", "puppeteer"}

\* the action up to the config: the url and the renderer are checked, then
\* the numbers are parsed; a flaresolverr crawl gets the timeout 60000
CliBuildConfig ==
    /\ mode = "cli" /\ cx.pc = "action"
    /\ IF ProtocolOf(cx.options.url) \notin {"http:", "https:"}
       THEN cx' = [cx EXCEPT !.pc = "exit", !.exitCode = 1]
       ELSE IF cx.options.renderer \notin {"static", "flaresolverr"}
       THEN cx' = [cx EXCEPT !.pc = "exit", !.exitCode = 1]
       ELSE cx' = [cx EXCEPT
                     !.pc = "built",
                     !.config = [sourceUrl |-> cx.options.url,
                                 maxDepth |-> parseInt(cx.options.maxDepth),
                                 concurrency |-> parseInt(cx.options.concurrency),
                                 timeout |-> IF cx.options.renderer = "flaresolverr"
                                             THEN Number(60000)
                                             ELSE parseInt(cx.options.timeout),
                                 delay |-> parseInt(cx.options.delay),
                                 renderer |-> cx.options.renderer]]
    /\ UNCHANGED <<mode, crawlVars, fx, sx, vx, ux, tx>>

\* `Validate numeric options`: the process exits with 1, or crawl is called
CliValidateNumbers ==
    /\ mode = "cli" /\ cx.pc = "built"
    /\ IF \/ isNaN(cx.config.maxDepth) \/ cx.config.maxDepth.value < 0
          \/ isNaN(cx.config.concurrency) \/ cx.config.concurrency.value < 1
          \/ isNaN(cx.config.timeout) \/ cx.config.timeout.value < 0
       THEN cx' = [cx EXCEPT !.pc = "exit", !.exitCode = 1]
       ELSE cx' = [cx EXCEPT !.pc = "crawl"]
    /\ UNCHANGED <<mode, crawlVars, fx, sx, vx, ux, tx>>


(***************************************************************************)
(* Initial states and specifications.                                      *)
(***************************************************************************)
Configs ==
    [sourceUrl : {SourceUrl}, site : Sites,
     maxDepth : (0..MaxMaxDepth) \cup {5}, concurrency : 1..MaxConcurrency,
     timeout : Timeouts, delay : {0, 100},
     excludePatterns : {<<>>, <<"/b">>},
     renderer : {"static", "flaresolverr"},
     flaresolverrUrl : {"http://localhost:8191/v1"},
     outputPath : {"crawl.json"}]

IdleConfig == CHOOSE c \in Configs : TRUE

IdleCrawl ==
    /\ config = IdleConfig /\ pc = "idle" /\ queue = <<>> /\ visited = {}
    /\ crawledUrls = <<>> /\ stats = ZeroStats /\ toProcess = <<>> /\ tasks = <<>>
    /\ output = NoOutput /\ fetchLog = <<>> /\ dequeueLog = <<>> /\ settleLog = <<>>

\* crawl(config) up to the loop: nothing visited, the source url queued
InitCrawl ==
    /\ mode = "crawl"
    /\ config \in Configs
    /\ pc = "loop"
    /\ queue = <<Item(normalizeUrl(config.sourceUrl), 0, NullUrl)>>
    /\ visited = {}
    /\ crawledUrls = <<>>
    /\ stats = ZeroStats
    /\ toProcess = <<>> /\ tasks = <<>>
    /\ output = NoOutput
    /\ fetchLog = <<>> /\ dequeueLog = <<>> /\ settleLog = <<>>
    /\ fx = IdleFetch /\ sx = IdleSched /\ vx = IdleValidate /\ ux = IdleUrl /\ tx = IdleText
    /\ cx = IdleCli

InitFetch ==
    /\ mode \in {"fetch", "flare"}
    /\ \E u \in FetchUrls, t \in Timeouts, r \in 0..MaxRetries :
          fx = [IdleFetch EXCEPT !.url = u, !.timeout = t, !.pc = "start",
                                 !.retries = IF mode = "fetch" THEN r ELSE 0]
    /\ IdleCrawl /\ sx = IdleSched /\ vx = IdleValidate /\ ux = IdleUrl /\ tx = IdleText
    /\ cx = IdleCli

RECURSIVE SeqsUpTo(_, _)
SeqsUpTo(S, n) ==
    IF n = 0 THEN {<<>>}
    ELSE LET shorter == SeqsUpTo(S, n - 1)
         IN shorter \cup {Append(q, x) : q \in shorter, x \in S}

InitSched ==
    /\ mode = "sched"
    /\ \E it \in SeqsUpTo(ItemValues, MaxItems), k \in 1..MaxConcurrency :
          sx = [IdleSched EXCEPT !.items = it, !.concurrency = k, !.returned = "start"]
    /\ IdleCrawl /\ fx = IdleFetch /\ vx = IdleValidate /\ ux = IdleUrl /\ tx = IdleText
    /\ cx = IdleCli

InitValidate ==
    /\ mode = "validate"
    /\ \E n \in 0..MaxUrls, k \in 1..MaxConcurrency, h \in {"ok", "warning"} :
          vx = [IdleValidate EXCEPT !.urls = [i \in 1..n |-> InputUrl(i)],
                                    !.concurrency = k,
                                    !.redirectHandling = h,
                                    !.destinationUrl = DestinationUrl,
                                    !.timeout = 10000,
                                    !.pc = "start"]
    /\ IdleCrawl /\ fx = IdleFetch /\ sx = IdleSched /\ ux = IdleUrl /\ tx = IdleText
    /\ cx = IdleCli

InitUrl ==
    /\ mode = "url"
    /\ \E a \in UrlInputs, b \in UrlInputs :
          ux = [IdleUrl EXCEPT !.pc = "start", !.u = a, !.v = b]
    /\ IdleCrawl /\ fx = IdleFetch /\ sx = IdleSched /\ vx = IdleValidate
    /\ tx = IdleText /\ cx = IdleCli

NextUrl == NormalizeFirst \/ NormalizeAgain

NextCrawl ==
    \/ CrawlTakeBatch
    \/ \E i \in 1..(2 * MaxConcurrency) : CrawlTaskStart(i)
    \/ \E i \in 1..(2 * MaxConcurrency) : CrawlTaskFetched(i)
    \/ \E i \in 1..(2 * MaxConcurrency) : CrawlTaskSlept(i)
    \/ CrawlAwaitAll
    \/ CrawlFinish

NextFetch ==
    \/ FetchEnter \/ FetchResponse \/ FetchThrow \/ FetchSleepDone
    \/ FlareEnter \/ FlareReply

NextSched ==
    \/ SchedEnter
    \/ \E i \in 1..MaxItems : SchedStart(i)
    \/ \E i \in 1..MaxItems : SchedFulfil(i)
    \/ \E i \in 1..MaxItems : SchedReject(i)

NextValidate ==
    \/ ValidateEnter
    \/ \E i \in 1..MaxUrls : ValidateStart(i)
    \/ \E i \in 1..MaxUrls : ValidateDone(i)
    \/ ValidateReport

InitSoft404 ==
    /\ mode = "soft404"
    /\ \E b \in BodyInputs, t \in SoftTitleInputs, c \in StatusCodes :
          tx = [IdleText EXCEPT !.pc = "call", !.body = b, !.title = t,
                                !.statusCode = c]
    /\ IdleCrawl /\ fx = IdleFetch /\ sx = IdleSched /\ vx = IdleValidate
    /\ ux = IdleUrl /\ cx = IdleCli

InitTitles ==
    /\ mode = "titles"
    /\ \E a \in TitleInputs, b \in TitleInputs :
          tx = [IdleText EXCEPT !.pc = "call", !.sourceTitle = a, !.destTitle = b]
    /\ IdleCrawl /\ fx = IdleFetch /\ sx = IdleSched /\ vx = IdleValidate
    /\ ux = IdleUrl /\ cx = IdleCli

\* the crawl command is given its options
InitCli ==
    /\ mode = "cli"
    /\ \E u \in UrlOptions, d \in MaxDepthOptions, c \in ConcurrencyOptions,
          t \in TimeoutOptions, r \in RendererOptions :
          cx = [IdleCli EXCEPT !.pc = "action",
                               !.options = [url |-> u, maxDepth |-> d,
                                            concurrency |-> c, timeout |-> t,
                                            delay |-> <<"1", "0", "0">>,
                                            renderer |-> r]]
    /\ IdleCrawl /\ fx = IdleFetch /\ sx = IdleSched /\ vx = IdleValidate
    /\ ux = IdleUrl /\ tx = IdleText

NextCli == CliBuildConfig \/ CliValidateNumbers
NextSoft404 == Soft404Call
NextTitles == TitlesMatchCall \/ SimilarityCall

Init ==
    \/ InitCrawl \/ InitFetch \/ InitSched \/ InitValidate \/ InitUrl
    \/ InitSoft404 \/ InitTitles \/ InitCli
Next ==
    \/ NextCrawl \/ NextFetch \/ NextSched \/ NextValidate \/ NextUrl
    \/ NextSoft404 \/ NextTitles \/ NextCli

Spec == Init /\ [][Next]_vars
SpecCrawl == InitCrawl /\ [][NextCrawl]_vars
SpecFetch == InitFetch /\ [][NextFetch]_vars
SpecSched == InitSched /\ [][NextSched]_vars
SpecValidate == InitValidate /\ [][NextValidate]_vars
SpecUrl == InitUrl /\ [][NextUrl]_vars
SpecSoft404 == InitSoft404 /\ [][NextSoft404]_vars
SpecTitles == InitTitles /\ [][NextTitles]_vars
SpecCli == InitCli /\ [][NextCli]_vars
\* checkSoft404 on its own and as validateUrl calls it
SpecSoft404InUse ==
    (InitSoft404 \/ InitValidate) /\ [][NextSoft404 \/ NextValidate]_vars
\* the two programs that hand their tasks to a limiter of their own
InitLimiter == InitCrawl \/ InitValidate
NextLimiter == NextCrawl \/ NextValidate
SpecLimiter == InitLimiter /\ [][NextLimiter]_vars

\* the event loop runs every continuation that is ready, and every fetch
\* and every sleep ends: an attempt of fetchUrl is aborted at its timeout,
\* and undici gives up on a silent proxy after its own header timeout
SpecCrawlFair == SpecCrawl /\ WF_vars(NextCrawl)
\* the same event loop under runWithProgress: a task that is started
\* returns or throws, and the limiter's continuations run
SpecSchedFair == SpecSched /\ WF_vars(NextSched)

(***************************************************************************)
(* Properties of the crawl.                                                *)
(***************************************************************************)
NormalizedOf(log) == [i \in DOMAIN log |-> normalizeUrl(log[i])]
PendingCount(ts) == Cardinality({i \in DOMAIN ts : ts[i].phase = "pending"})

\* C1: no normalized url is fetched twice, in one batch or across batches;
\* a url is in visited before its fetch starts, and visited grew by one
\* for every item that was handed to the limiter
C1_NoUrlFetchedTwice ==
    mode = "crawl" =>
      /\ \A i, j \in DOMAIN fetchLog :
            i # j => normalizeUrl(fetchLog[i]) # normalizeUrl(fetchLog[j])
      /\ \A i \in DOMAIN fetchLog : normalizeUrl(fetchLog[i]) \in visited
      /\ \A i \in DOMAIN toProcess : normalizeUrl(toProcess[i].url) \in visited
      /\ \A i, j \in DOMAIN toProcess :
            i # j => normalizeUrl(toProcess[i].url) # normalizeUrl(toProcess[j].url)
      /\ Cardinality(visited) = Len(fetchLog) + PendingCount(tasks)

\* a url was dequeued twice (it was linked from two pages before its first
\* fetch) and fetched, and the crawl is over
C1_Witness ==
    /\ pc = "done"
    /\ \E i, j \in DOMAIN dequeueLog :
          /\ i < j
          /\ normalizeUrl(dequeueLog[i].url) = normalizeUrl(dequeueLog[j].url)
          /\ dequeueLog[i].url \in Range(fetchLog)
          /\ dequeueLog[i].depth <= config.maxDepth

\* C2: in a crawl and in a validation, the tasks started and not settled
\* never outnumber the configured concurrency
C2_AtMostKInFlight ==
    /\ mode = "crawl" => ActiveCount(Phases(tasks)) <= config.concurrency
    /\ mode = "validate" => ActiveCount(vx.phase) <= vx.concurrency

\* a crawl batch of 2K items, K of them in flight and the others waiting
C2_Witness ==
    /\ mode = "crawl" /\ pc = "batch"
    /\ Len(toProcess) = 2 * config.concurrency
    /\ ActiveCount(Phases(tasks)) = config.concurrency
    /\ PendingCount(tasks) >= 1

\* C3: the crawl reaches an empty queue, writes its output and returns,
\* whatever the fetches do
C3_CrawlTerminates == <>(pc = "done" /\ output.written)

\* the crawl is over, the output written, and no url was crawled with success
C3_Witness ==
    /\ pc = "done" /\ output.written
    /\ output.stats.failedCrawls >= 1 /\ output.stats.successfulCrawls = 0

\* C4: the first record is the source's, at depth 0 and discovered from
\* nothing; every later record has an earlier record whose url is its
\* discoveredFrom and whose depth is one less
C4_DepthIsParentPlusOne ==
    mode = "crawl" =>
      \A k \in DOMAIN crawledUrls :
         IF k = 1
         THEN crawledUrls[k].depth = 0 /\ crawledUrls[k].discoveredFrom = NullUrl
         ELSE /\ crawledUrls[k].discoveredFrom # NullUrl
              /\ \E j \in 1..(k - 1) :
                    /\ crawledUrls[j].url = crawledUrls[k].discoveredFrom
                    /\ crawledUrls[k].depth = crawledUrls[j].depth + 1

\* the crawl is over with a record at depth 2 that was discovered from the
\* page a redirected fetch ended on
C4_Witness ==
    /\ pc = "done"
    /\ \E k \in DOMAIN crawledUrls, n \in DOMAIN settleLog :
          /\ crawledUrls[k].depth = 2
          /\ settleLog[n].fetched.wasRedirected
          /\ crawledUrls[k].discoveredFrom = settleLog[n].fetched.finalUrl

\* C5: the queue is sorted by depth, and items leave it in non-decreasing
\* depth order
C5_NonDecreasingDepth ==
    mode = "crawl" =>
      /\ \A i, j \in DOMAIN queue : i < j => queue[i].depth <= queue[j].depth
      /\ \A i, j \in DOMAIN dequeueLog :
            i < j => dequeueLog[i].depth <= dequeueLog[j].depth
      /\ \A i \in DOMAIN dequeueLog, j \in DOMAIN queue :
            dequeueLog[i].depth <= queue[j].depth

\* a batch in flight holds items of two depths
C5_Witness ==
    /\ pc = "batch"
    /\ Len(toProcess) >= 2
    /\ toProcess[1].depth < toProcess[Len(toProcess)].depth

FailureRecord(item, fetched) ==
    [url |-> item.url, path |-> getUrlPath(item.url), title |-> NullTitle,
     statusCode |-> fetched.statusCode, depth |-> item.depth,
     discoveredFrom |-> item.discoveredFrom]

\* C6: a failed fetch gives a result with status 0, a null title, the
\* item's depth and discoveredFrom and no links; once the batch is
\* processed there is exactly one such record; nothing in the queue was
\* discovered from a failure; and the crawl does not fail
C6_FailureIsRecorded ==
    mode = "crawl" =>
      /\ pc # "failed"
      /\ \A i \in DOMAIN tasks :
            (tasks[i].phase = "fulfilled" /\ Truthy(tasks[i].fetched.error)) =>
               /\ tasks[i].fetched.statusCode = 0
               /\ tasks[i].result.crawledUrl = FailureRecord(toProcess[i], tasks[i].fetched)
               /\ tasks[i].result.links = <<>>
      /\ pc \in {"loop", "done"} =>
            \A n \in DOMAIN settleLog :
               Truthy(settleLog[n].fetched.error) =>
                  /\ Cardinality({k \in DOMAIN crawledUrls : crawledUrls[k] =
                        FailureRecord(settleLog[n].item, settleLog[n].fetched)}) = 1
                  /\ FailureRecord(settleLog[n].item, settleLog[n].fetched).statusCode = 0
      /\ Len(crawledUrls) + Cardinality({i \in DOMAIN tasks : tasks[i].phase = "fulfilled"})
            = Len(settleLog)
      /\ \A i \in DOMAIN queue :
            queue[i].discoveredFrom # NullUrl =>
               \E k \in DOMAIN crawledUrls :
                  /\ crawledUrls[k].url = queue[i].discoveredFrom
                  /\ crawledUrls[k].statusCode # 0

\* the crawl is over and a failure's record is followed by another record
C6_Witness ==
    /\ pc = "done"
    /\ \E k \in DOMAIN crawledUrls :
          /\ k < Len(crawledUrls)
          /\ crawledUrls[k].statusCode = 0 /\ crawledUrls[k].title = NullTitle
          /\ crawledUrls[k].depth >= 1

\* the record crawlUrl built for the n-th fetch to complete
RecordOfSettled(n) == crawlUrl(settleLog[n].item, settleLog[n].fetched, config).crawledUrl

\* C16 as stated: once a batch is processed, the records are in the order
\* in which their fetches completed (read on the runs without a delay,
\* where a task settles at the moment its fetch completes)
C16_Original ==
    (mode = "crawl" /\ pc \in {"loop", "done"} /\ config.delay = 0) =>
       /\ Len(crawledUrls) = Len(settleLog)
       /\ \A k \in DOMAIN crawledUrls : crawledUrls[k] = RecordOfSettled(k)

\* C16 as amended: the records are in the order in which their urls were
\* taken from the queue and their fetches started; the k-th record is the
\* one of the k-th fetch to start, whenever that fetch completed
C16_RecordsInStartOrder ==
    (mode = "crawl" /\ pc \in {"loop", "done"}) =>
       /\ Len(crawledUrls) = Len(fetchLog)
       /\ \A k \in DOMAIN crawledUrls :
             \E n \in DOMAIN settleLog :
                /\ settleLog[n].item.url = fetchLog[k]
                /\ crawledUrls[k] = RecordOfSettled(n)

\* the crawl is over, and the first fetch of some batch to complete was not
\* the first of its batch to start
C16_Witness ==
    /\ mode = "crawl" /\ pc = "done"
    /\ \E k \in DOMAIN settleLog :
          /\ settleLog[k].item.url # fetchLog[k]
          /\ crawledUrls[k].url = fetchLog[k]

\* C17: at the end of a crawl there is one record for each member of
\* visited, totalUrls = successfulCrawls + failedCrawls = the number of
\* records, and successfulCrawls is the number of records with a 2xx status
C17_OneRecordPerVisited ==
    (mode = "crawl" /\ pc = "done") =>
       /\ Len(output.urls) = Cardinality(visited)
       /\ \A m \in visited :
             Cardinality({n \in DOMAIN settleLog :
                             normalizeUrl(settleLog[n].item.url) = m}) = 1
       /\ \A n \in DOMAIN settleLog :
             Cardinality({k \in DOMAIN output.urls :
                             output.urls[k] = RecordOfSettled(n)}) >= 1
       /\ Len(settleLog) = Len(output.urls)
       /\ output.stats.totalUrls = Len(output.urls)
       /\ output.stats.totalUrls =
             output.stats.successfulCrawls + output.stats.failedCrawls
       /\ output.stats.successfulCrawls =
             Cardinality({k \in DOMAIN output.urls :
                             isSuccessStatus(output.urls[k].statusCode)})

\* a crawl has ended with a 2xx record, a 404 record and a status 0 record
C17_Witness ==
    /\ mode = "crawl" /\ pc = "done"
    /\ \E i, j, k \in DOMAIN output.urls :
          /\ output.urls[i].statusCode = 200
          /\ output.urls[j].statusCode = 404
          /\ output.urls[k].statusCode = 0

\* C18: in the output of a crawl no two records carry the same url, so
\* that totalUrls counts unique urls
C18_UniqueRecordUrls ==
    (mode = "crawl" /\ pc = "done") =>
       /\ \A i, j \in DOMAIN output.urls :
             i # j => output.urls[i].url # output.urls[j].url
       /\ output.stats.totalUrls =
             Cardinality({output.urls[k].url : k \in DOMAIN output.urls})

\* the normalized form of u matches one of the configured patterns
Excluded(u) == shouldExclude(normalizeUrl(u), config.excludePatterns)

\* the run of the example: root -> /a -> /b, every page served as it is,
\* "/b" excluded, maxDepth 5
ExampleRun ==
    /\ mode = "crawl" /\ pc = "done"
    /\ config.site = "chain" /\ config.excludePatterns = <<"/b">>
    /\ config.maxDepth = 5
    /\ \A n \in DOMAIN settleLog :
          settleLog[n].fetched.statusCode = 200 /\ ~settleLog[n].fetched.wasRedirected

ExampleResult == Len(output.urls) = 2 /\ output.stats.skippedDueToExclude = 1

\* C19 as stated: no excluded url is fetched or recorded, every excluded
\* item that is dequeued counts in skippedDueToExclude, and the example
\* gives 2 records and skippedDueToExclude = 1
C19_Original ==
    mode = "crawl" =>
       /\ \A i \in DOMAIN fetchLog : ~Excluded(fetchLog[i])
       /\ \A k \in DOMAIN crawledUrls : ~Excluded(crawledUrls[k].url)
       /\ stats.skippedDueToExclude =
             Cardinality({i \in DOMAIN dequeueLog : Excluded(dequeueLog[i].url)})
       /\ ExampleRun => ExampleResult

\* C19 as amended: no excluded url is requested; a record carries one only
\* as the final url of a redirected fetch; an excluded item that is
\* dequeued counts in skippedDueToExclude when its depth is within
\* maxDepth and in skippedDueToDepth when it is not; and the example
C19_ExcludedNeverRequested ==
    mode = "crawl" =>
       /\ \A i \in DOMAIN fetchLog : ~Excluded(fetchLog[i])
       /\ \A k \in DOMAIN crawledUrls :
             Excluded(crawledUrls[k].url) =>
                \E n \in DOMAIN settleLog :
                   /\ settleLog[n].fetched.wasRedirected
                   /\ ~Excluded(settleLog[n].item.url)
                   /\ crawledUrls[k] = RecordOfSettled(n)
       /\ stats.skippedDueToExclude =
             Cardinality({i \in DOMAIN dequeueLog :
                             /\ Excluded(dequeueLog[i].url)
                             /\ dequeueLog[i].depth <= config.maxDepth})
       /\ stats.skippedDueToDepth >=
             Cardinality({i \in DOMAIN dequeueLog :
                             /\ Excluded(dequeueLog[i].url)
                             /\ dequeueLog[i].depth > config.maxDepth})
       /\ ExampleRun => ExampleResult

\* the run of the example has ended
C19_Witness == ExampleRun /\ ExampleResult /\ Len(settleLog) = 2

InFlight(ts) == \E i \in DOMAIN ts : ts[i].phase = "running"

\* C21: while a fetch task of a batch is in flight, in its fetch or in its
\* politeness delay, visited and the frontier do not change; and a batch is
\* taken from the frontier only when no task of the batch before it is
\* pending or in flight
C21_FrozenWhileInFlight ==
    [][mode = "crawl" =>
         /\ InFlight(tasks) => (visited' = visited /\ queue' = queue)
         /\ (queue' # queue \/ visited' # visited) =>
               \A i \in DOMAIN tasks : tasks[i].phase = "fulfilled"
         /\ dequeueLog' # dequeueLog =>
               (toProcess = <<>> /\ tasks = <<>>)]_vars

\* one task of a batch is in its politeness delay, another has settled
\* with links to enqueue, and the frontier still holds items
C21_Witness ==
    /\ mode = "crawl" /\ pc = "batch" /\ queue # <<>>
    /\ \E i, j \in DOMAIN tasks :
          /\ tasks[i].phase = "running" /\ tasks[i].at = "sleep"
          /\ tasks[j].phase = "fulfilled" /\ tasks[j].result.links # <<>>

SameSite(u) == StripWww(u.host) = StripWww(config.sourceUrl.host)

\* item was taken from an anchor of a page the crawl has fetched: it is one
\* level below that page's item and attributed to that page's url
ExtractedFromFetchedPage(item) ==
    \E n \in DOMAIN settleLog :
       LET f == settleLog[n].fetched IN
       /\ ~Truthy(f.error)
       /\ item.depth = settleLog[n].item.depth + 1
       /\ item.discoveredFrom = f.finalUrl
       /\ \E j \in DOMAIN Hrefs(config.site, f.body) :
             item.url = normalizeUrl(normalizeLink(Hrefs(config.site, f.body)[j]))

FrontierItems ==
    {queue[i] : i \in DOMAIN queue} \cup {dequeueLog[i] : i \in DOMAIN dequeueLog}

\* C20: every item placed in the frontier other than the seed is on the
\* source url's host up to a leading "www.", is one level below the page it
\* was extracted from and names that page's url as discoveredFrom; no url
\* of another host is enqueued or fetched
C20_FrontierItems ==
    mode = "crawl" =>
       /\ \A item \in FrontierItems :
             /\ SameSite(item.url)
             /\ \/ item = Item(normalizeUrl(config.sourceUrl), 0, NullUrl)
                \/ ExtractedFromFetchedPage(item)
       /\ \A i \in DOMAIN fetchLog : SameSite(fetchLog[i])

\* a page with an anchor to another host and one to the www. host has been
\* processed, and the www. link has been fetched
C20_Witness ==
    /\ mode = "crawl"
    /\ \E n \in DOMAIN settleLog :
          /\ ~Truthy(settleLog[n].fetched.error)
          /\ \E j \in DOMAIN Hrefs(config.site, settleLog[n].fetched.body) :
                ~SameSite(Hrefs(config.site, settleLog[n].fetched.body)[j])
    /\ \E i \in DOMAIN fetchLog :
          fetchLog[i].host = "www.a.com" /\ fetchLog[i].host # config.sourceUrl.host

(***************************************************************************)
(* Properties of the fetch layer.                                          *)
(***************************************************************************)
Attempts == Len(fx.events)
LastEvent == fx.events[Len(fx.events)]

\* what C7 says of a fetchUrl call, but for the message of the final
\* failure, which is given as `exhausted`
RetryPolicy(exhausted) ==
    mode = "fetch" =>
      /\ Attempts <= fx.retries + 1 /\ fx.attempt <= fx.retries + 1
      /\ \A i \in 1..(Attempts - 1) : fx.events[i].kind = "failure"
      /\ fx.pc = "returned" => Attempts >= 1
      /\ (Attempts >= 1 /\ LastEvent.kind = "response") =>
            /\ fx.pc = "returned"
            /\ fx.result.statusCode = LastEvent.response.status
            /\ fx.result.error = Absent
      /\ (Attempts >= 1 /\ LastEvent.kind = "timeout") =>
            /\ fx.pc = "returned"
            /\ fx.result.statusCode = 0
            /\ fx.result.error # Absent /\ fx.result.error # ""
      /\ (Attempts >= 1 /\ LastEvent.kind = "failure") =>
            /\ fx.pc = "returned" <=> Attempts = fx.retries + 1
            /\ fx.pc = "returned" =>
                  /\ fx.result.statusCode = 0
                  /\ fx.result.error = exhausted

\* C7 as stated: a fetchUrl call makes at most retries + 1 attempts, returns
\* at the first response (whatever its status) and at the first timeout,
\* re-attempts only after another failure, and after retries + 1 such
\* failures returns status 0 with the last attempt's error message
C7_Original == RetryPolicy(LastEvent.message)

\* C7 as amended: ... with the last attempt's error message, or with
\* 'Unknown error' when that message is empty
C7_RetryPolicy ==
    RetryPolicy(IF LastEvent.message = "" THEN "Unknown error" ELSE LastEvent.message)

\* a call with retries >= 2 has returned after retries + 1 failures whose
\* first and last messages differ
C7_Witness ==
    /\ mode = "fetch" /\ fx.pc = "returned"
    /\ fx.retries >= 2 /\ Attempts = fx.retries + 1
    /\ LastEvent.kind = "failure"
    /\ LastEvent.message # "" /\ LastEvent.message # fx.events[1].message
    /\ fx.result.error = LastEvent.message

\* C8: the n-th failed attempt is followed by a sleep of min(1000 n, 3000)
\* ms when it is neither a timeout nor the last attempt, and there is no
\* other sleep
C8_BackoffWaits ==
    mode = "fetch" =>
      /\ \A i \in DOMAIN fx.sleeps :
            /\ fx.sleeps[i].after = i
            /\ fx.sleeps[i].ms = (IF 1000 * i <= 3000 THEN 1000 * i ELSE 3000)
      /\ Len(fx.sleeps) =
            Cardinality({i \in DOMAIN fx.events :
                            fx.events[i].kind = "failure" /\ i <= fx.retries})

\* a call with retries = 4 has returned after five failures and four sleeps
C8_Witness ==
    /\ mode = "fetch" /\ fx.pc = "returned"
    /\ fx.retries = 4 /\ Attempts = 5 /\ LastEvent.kind = "failure"
    /\ Len(fx.sleeps) = 4 /\ fx.sleeps[4].ms = 3000

FailedShape(r, url) ==
    /\ r.error # Absent /\ r.error # ""
    /\ r.statusCode = 0 /\ r.body = ""
    /\ r.finalUrl = url /\ r.wasRedirected = FALSE

HttpShape(r, url, status, body, finalUrl) ==
    /\ r.error = Absent
    /\ r.statusCode = status /\ r.body = body
    /\ r.finalUrl = finalUrl /\ r.wasRedirected = (finalUrl # url)

\* C9: a returned FetchResult is a failure (error set and not empty,
\* status 0, empty body, finalUrl the requested url, not redirected) when
\* the call ended with an error, and else carries the response's status,
\* body and url and no error; never an error with a status other than 0
C9_ResultShape ==
    (mode \in {"fetch", "flare"} /\ fx.pc = "returned") =>
      /\ ~(fx.result.error # Absent /\ fx.result.statusCode # 0)
      /\ IF mode = "fetch"
         THEN IF Attempts >= 1 /\ LastEvent.kind = "response"
              THEN HttpShape(fx.result, fx.url, LastEvent.response.status,
                             LastEvent.response.body,
                             IF LastEvent.response.url = NullUrl THEN fx.url
                             ELSE LastEvent.response.url)
              ELSE FailedShape(fx.result, fx.url)
         ELSE IF /\ LastEvent.kind = "reply" /\ LastEvent.httpStatus = 200
                 /\ LastEvent.dataStatus = "ok" /\ LastEvent.solution # NoSolution
              THEN HttpShape(fx.result, fx.url, LastEvent.solution.status,
                             LastEvent.solution.response, LastEvent.solution.url)
              ELSE FailedShape(fx.result, fx.url)

\* a call has returned after its last attempt threw an error with an empty
\* message
C9_Witness ==
    /\ mode = "fetch" /\ fx.pc = "returned"
    /\ LastEvent.kind = "failure" /\ LastEvent.message = ""
    /\ fx.result.error = "Unknown error"

(***************************************************************************)
(* Properties of the scheduler.                                            *)
(***************************************************************************)
\* C10: a run that resolves returns, at each index, the result of the task
\* run on the item at that index
C10_IndexStable ==
    (mode = "sched" /\ sx.returned = "resolved") =>
      /\ Len(sx.results) = Len(sx.items)
      /\ \A i \in DOMAIN sx.items : sx.results[i] = TaskValue(sx.items[i], i)

\* a run on three items has resolved, and the last item's task completed first
C10_Witness ==
    /\ mode = "sched" /\ sx.returned = "resolved"
    /\ Len(sx.items) = 3 /\ sx.order[1] # 1 /\ sx.order[3] # 3

\* runWithProgress has returned to its caller, one way or the other
SchedReturned == mode = "sched" /\ sx.returned \in {"resolved", "rejected"}

\* C11: when runWithProgress returns (resolves or rejects), every submitted
\* task has settled
C11_ReturnsAfterAllSettled ==
    SchedReturned => /\ Len(sx.phase) = Len(sx.items)
                     /\ AllSettled(sx.phase)

\* C12: every submitted task is started and settles in the end, whichever
\* tasks reject
C12_EveryTaskSettles ==
    <>(/\ mode = "sched" /\ sx.returned \notin {"idle", "start"}
       /\ Len(sx.phase) = Len(sx.items)
       /\ AllSettled(sx.phase))

\* with one slot, the first task rejected and a task after it ran to its end
C12_Witness ==
    /\ mode = "sched" /\ sx.concurrency = 1 /\ Len(sx.items) >= 2
    /\ Len(sx.phase) = Len(sx.items) /\ AllSettled(sx.phase)
    /\ sx.phase[1] = "rejected" /\ sx.phase[Len(sx.items)] = "fulfilled"

\* C13: once every task has settled, onComplete has been called once for
\* each item, for the tasks that threw as for the others
C13_CallbackPerItem ==
    (mode = "sched" /\ sx.returned \notin {"idle", "start"} /\ AllSettled(sx.phase)) =>
       /\ Len(sx.callbacks) = Len(sx.items)
       /\ \A i \in DOMAIN sx.items :
             Cardinality({n \in DOMAIN sx.callbacks :
                             sx.callbacks[n].index = i}) = 1

(***************************************************************************)
(* Properties of normalizeUrl.                                             *)
(***************************************************************************)
\* C14: normalizeUrl applied to its own result gives that result
C14_Idempotent ==
    (mode = "url" /\ ux.pc = "twice") => ux.nnu = ux.nu

Occurrences(q, k) == Cardinality({i \in DOMAIN q : q[i] = k})
OnlyFragmentDiffers(a, b) == b \in {[a EXCEPT !.hash = f] : f \in {"", "top"}}
OneTrailingSlashDiffers(a, b) == b = [a EXCEPT !.path = Append(a.path, "/")]
OnlyParamOrderDiffers(a, b) ==
    /\ [b EXCEPT !.query = a.query] = a
    /\ \A k \in Range(a.query) \cup Range(b.query) :
          Occurrences(a.query, k) = Occurrences(b.query, k)

\* C15: two urls that differ only in the fragment, in one trailing slash on
\* a path other than "/", or in the order of their parameters have the same
\* normalization; and the path "/" is left as it is
C15_SameNode ==
    (mode = "url" /\ ux.pc # "start") =>
       /\ (\/ OnlyFragmentDiffers(ux.u, ux.v)
           \/ OneTrailingSlashDiffers(ux.u, ux.v)
           \/ OnlyParamOrderDiffers(ux.u, ux.v)) => ux.nu = ux.nv
       /\ ux.u.path = Root => ux.nu.path = Root

(***************************************************************************)
(* Properties of the validator.                                            *)
(***************************************************************************)
IssueTypes(r) == {r.issues[j].type : j \in DOMAIN r.issues}
ErrorKinds == {"error", "not_found", "server_error", "soft_404"}
WarningKinds == {"redirect", "title_mismatch"}

\* C22: a destination fetch that fails (transport failure or timeout) gives
\* a record of status error whose only issue is of kind error and carries
\* the message of the fetch; no other check adds to it
C22_FetchErrorIsTerminal ==
    mode = "validate" =>
       \A k \in DOMAIN vx.log :
          Truthy(vx.log[k].fetched.error) =>
             /\ vx.log[k].result.status = "error"
             /\ vx.log[k].result.issues = <<Issue("error", vx.log[k].fetched.error)>>

\* a run in which one fetch timed out has been reported
C22_Witness ==
    /\ mode = "validate" /\ vx.pc = "done"
    /\ \E k \in DOMAIN vx.log :
          /\ vx.log[k].fetched.error = TimeoutResult(NullUrl, vx.timeout).error
          /\ vx.log[k].result.status = "error"

Severity(status) == CASE status = "ok" -> 0 [] status = "warning" -> 1
                      [] status = "error" -> 2

\* C23: across the checks of validateUrl the status never goes down, and
\* the status returned is the highest severity among the issues: error iff
\* an issue is of kind error, not_found, server_error or soft_404; warning
\* iff none is and one is of kind redirect or title_mismatch; ok iff there
\* is no issue
C23_StatusIsHighestSeverity ==
    mode = "validate" =>
       \A k \in DOMAIN vx.log :
          \E r \in {vx.log[k].result}, statuses \in {vx.log[k].statuses} :
             /\ \A n \in 1..(Len(statuses) - 1) :
                   Severity(statuses[n]) <= Severity(statuses[n + 1])
             /\ Severity(Last(statuses)) <= Severity(r.status)
             /\ ~Truthy(vx.log[k].fetched.error) => r.status = Last(statuses)
             /\ r.status = "error" <=> IssueTypes(r) \cap ErrorKinds # {}
             /\ r.status = "warning" <=>
                   (IssueTypes(r) \cap ErrorKinds = {}
                    /\ IssueTypes(r) \cap WarningKinds # {})
             /\ r.status = "ok" <=> r.issues = <<>>

\* a 404 reached through a redirect: the redirect check finds the status
\* at error and leaves it there
C23_Witness ==
    /\ mode = "validate"
    /\ \E k \in DOMAIN vx.log :
          /\ IssueTypes(vx.log[k].result) = {"not_found", "redirect"}
          /\ vx.log[k].statuses = <<"ok", "error", "error", "error", "error", "error">>
          /\ vx.log[k].result.status = "error"

\* C24: with redirectHandling = 'ok' a redirect to another path on a
\* destination that is clean otherwise does not give the status warning
C24_RedirectsOk ==
    (mode = "validate" /\ vx.redirectHandling = "ok") =>
       \A k \in DOMAIN vx.log :
          IssueTypes(vx.log[k].result) = {"redirect"} =>
             vx.log[k].result.status # "warning"

\* C25: no record has a title_mismatch issue together with an issue of kind
\* not_found, server_error, soft_404 or error, and none has one when the
\* source title or the destination title is null
C25_TitleCheckGuard ==
    mode = "validate" =>
       \A k \in DOMAIN vx.log :
          LET r == vx.log[k].result IN
          "title_mismatch" \in IssueTypes(r) =>
             /\ IssueTypes(r) \cap ErrorKinds = {}
             /\ r.sourceTitle # NullText /\ r.destinationTitle # NullText

\* a 404 page whose title differs from the source title was validated, and
\* so was a record with a title_mismatch
C25_Witness ==
    /\ mode = "validate"
    /\ \E k \in DOMAIN vx.log :
          LET r == vx.log[k].result IN
          /\ "not_found" \in IssueTypes(r)
          /\ TruthyText(r.sourceTitle) /\ TruthyText(r.destinationTitle)
          /\ ~titlesMatch(r.sourceTitle, r.destinationTitle)
    /\ \E k \in DOMAIN vx.log : "title_mismatch" \in IssueTypes(vx.log[k].result)

\* the bodies the destination serves whose text has at least 100
\* characters, tags stripped, and matches no error pattern
PlainBodies ==
    {b \in {"x", "y", "z", "m", "thin", "gone"} :
        \E text \in {extractBodyText(b)} :
           /\ Len(trim(CollapseSpaces(StripTags(text)))) >= 100
           /\ \A i \in DOMAIN BODY_ERROR_PATTERNS :
                 ~RegExpTest(BODY_ERROR_PATTERNS[i], text)}

\* the destination has answered 200 without a redirect, with the title
\* "Foo - Bar", for a source path whose title is "Foo"
FooExample(entry) ==
    /\ entry.sourceTitle = <<"F", "o", "o">>
    /\ ~Truthy(entry.fetched.error)
    /\ entry.fetched.statusCode = 200 /\ ~entry.fetched.wasRedirected
    /\ entry.result.destinationTitle = <<"F", "o", "o", " ", "-", " ", "B", "a", "r">>

\* C31 as stated: source title "Foo", destination 200 without redirect and
\* with title "Foo - Bar": the record has status ok and no issue
C31_Original ==
    mode = "validate" =>
       \A k \in DOMAIN vx.log :
          FooExample(vx.log[k]) =>
             vx.log[k].result.status = "ok" /\ vx.log[k].result.issues = <<>>

\* C31 as amended: the same, for a destination body whose text has at
\* least 100 characters and matches no error pattern
C31_ContainmentMatch ==
    mode = "validate" =>
       \A k \in DOMAIN vx.log :
          (FooExample(vx.log[k]) /\ vx.log[k].fetched.body \in PlainBodies) =>
             vx.log[k].result.status = "ok" /\ vx.log[k].result.issues = <<>>

\* the example has been validated and reported
C31_Witness ==
    /\ mode = "validate" /\ vx.pc = "done"
    /\ \E k \in DOMAIN vx.log :
          /\ FooExample(vx.log[k]) /\ vx.log[k].fetched.body \in PlainBodies
          /\ vx.log[k].result.status = "ok"

\* the records validateUrl has returned, in the order the tasks pushed them
Pushed == [k \in DOMAIN vx.log |-> vx.log[k].result]
BySeverity(results) ==
    \A i, j \in DOMAIN results :
       i < j => Severity(results[i].status) >= Severity(results[j].status)
SameRecords(a, b) ==
    /\ Len(a) = Len(b)
    /\ \A r \in Range(a) \cup Range(b) : Occurrences(a, r) = Occurrences(b, r)

\* C32: the results of the report are ordered error, warning, ok; until
\* every validation has settled the results stay in the order they were
\* pushed, and the sort, applied then, keeps the multiset of records
C32_SortedOnceSettled ==
    mode = "validate" =>
       /\ vx.pc \in {"start", "await"} =>
             (vx.results = Pushed /\ ~vx.report.written)
       /\ vx.pc = "done" =>
             /\ \A i \in DOMAIN vx.phase : vx.phase[i] = "fulfilled"
             /\ vx.report.written
             /\ BySeverity(vx.report.results)
             /\ vx.results = vx.report.results
             /\ SameRecords(vx.report.results, Pushed)
             /\ Len(vx.report.results) = Len(vx.urls)

\* a report whose records were pushed in another order than it lists them,
\* with a record of each status
C32_Witness ==
    /\ mode = "validate" /\ vx.pc = "done" /\ vx.report.written
    /\ vx.report.results # Pushed
    /\ {vx.report.results[i].status : i \in DOMAIN vx.report.results}
          = {"error", "warning", "ok"}

\* the source paths of the records and of the inputs
SourcePaths(results) == [k \in DOMAIN results |-> results[k].sourcePath]
InputPaths == [k \in DOMAIN vx.urls |-> vx.urls[k].path]

\* C33: whatever the interleaving of the tasks, the results hold one record
\* for each task that has returned, and in the end exactly one per input;
\* the summary has totalUrls = number of inputs = okUrls + warningUrls +
\* errorUrls
C33_OneRecordPerInput ==
    mode = "validate" =>
       /\ vx.pc = "await" =>
             /\ Len(vx.results) =
                   Cardinality({i \in DOMAIN vx.phase : vx.phase[i] = "fulfilled"})
             /\ vx.processed = Len(vx.results)
       /\ vx.pc = "done" =>
             /\ SameRecords(SourcePaths(vx.report.results), InputPaths)
             /\ vx.report.summary.totalUrls = Len(vx.urls)
             /\ vx.report.summary.totalUrls =
                   vx.report.summary.okUrls + vx.report.summary.warningUrls
                   + vx.report.summary.errorUrls

\* a run of three inputs whose tasks returned in another order than the
\* inputs have
C33_Witness ==
    /\ mode = "validate" /\ vx.pc = "done"
    /\ Len(vx.urls) = 3 /\ vx.concurrency = 2
    /\ SourcePaths(Pushed)[1] = InputPaths[2]
    /\ SourcePaths(Pushed)[2] = InputPaths[3]
    /\ vx.report.summary.totalUrls = 3

(***************************************************************************)
(* Properties of the classifier.                                           *)
(***************************************************************************)
SorryBody ==
    <<"S", "o", "r", "r", "y", ",", " ", "t", "h", "i", "s", " ", "p", "a", "g",
    "e", " ", "c", "o", "u", "l", "d", " ", "n", "o", "t", " ", "b", "e",
    " ", "f", "o", "u", "n", "d", ".">>

\* C26: for a status other than 200, checkSoft404 answers isSoft404 =
\* false, confidence 0 and no reasons, whatever the body and the title;
\* and the validator has no soft_404 issue for a response that is not a 200
C26_OnlyStatus200 ==
    /\ (mode = "soft404" /\ tx.pc = "returned" /\ tx.statusCode # 200) =>
          tx.check = Soft404CheckResult(FALSE, 0, <<>>)
    /\ mode = "validate" =>
          \A k \in DOMAIN vx.log :
             "soft_404" \in IssueTypes(vx.log[k].result) =>
                vx.log[k].fetched.statusCode = 200

\* the body and title of an error page, served with status 204
C26_Witness ==
    /\ mode = "soft404" /\ tx.pc = "returned"
    /\ tx.statusCode = 204 /\ tx.body = SorryBody
    /\ tx.title = <<"4", "0", "4", " ", "E", "r", "r", "o", "r">>

\* the patterns of a list that match a text, case folded
Matching(patterns, text) ==
    {i \in DOMAIN patterns : RegExpTest(patterns[i], toLowerCase(text))}

\* T, B, L and E of C27 for a body and a title
TitlePart(title) ==
    IF TruthyText(title) /\ Matching(TITLE_ERROR_PATTERNS, title) # {} THEN 40 ELSE 0
BodyPart(body) ==
    IF Matching(BODY_ERROR_PATTERNS, body) = {} THEN 0
    ELSE Min(30 + 10 * Cardinality(Matching(BODY_ERROR_PATTERNS, body)), 50)
LengthPart(body) == IF Len(body) < 500 THEN 20 ELSE 0
TextPart(body) == IF Len(trim(CollapseSpaces(StripTags(body)))) < 100 THEN 30 ELSE 0

\* C27: for status 200 the confidence is min(T + B + L + E, 1.0), it lies
\* in [0, 1], and the page is flagged exactly when it is at least 0.5
C27_Confidence ==
    (mode = "soft404" /\ tx.pc = "returned" /\ tx.statusCode = 200) =>
       /\ tx.check.confidence =
             Min(TitlePart(tx.title) + BodyPart(tx.body) + LengthPart(tx.body)
                 + TextPart(tx.body), 100)
       /\ tx.check.confidence \in 0..100
       /\ tx.check.isSoft404 <=> tx.check.confidence >= 50

\* a long body that matches several patterns under a title that matches
\* two: the body part is capped at 0.5 and the title counts once
C27_Witness ==
    /\ mode = "soft404" /\ tx.pc = "returned" /\ tx.statusCode = 200
    /\ Len(tx.body) >= 500
    /\ Cardinality(Matching(BODY_ERROR_PATTERNS, tx.body)) >= 3
    /\ TruthyText(tx.title)
    /\ Cardinality(Matching(TITLE_ERROR_PATTERNS, tx.title)) >= 2
    /\ tx.check.confidence = 90

IsExample ==
    /\ mode = "soft404" /\ tx.pc = "returned" /\ tx.statusCode = 200
    /\ tx.body = SorryBody
    /\ tx.title = <<"4", "0", "4", " ", "E", "r", "r", "o", "r">>

\* C28 as stated: the example is flagged with confidence >= 0.5, and what is
\* added to the score is 0.4 for the title, 0.3 for the body and 0.2 for
\* the short length
C28_Original ==
    IsExample =>
       /\ tx.check.isSoft404 /\ tx.check.confidence >= 50
       /\ \E score \in {Soft404Score(tx.body, tx.title)} :
             score.title = 40 /\ score.body = 30 /\ score.length = 20

\* C28 as amended: the example is flagged with confidence >= 0.5, and what
\* is added to the score is 0.4 for the title, 0.5 for the body and 0.2 for
\* the short length
C28_Example ==
    IsExample =>
       /\ tx.check.isSoft404 /\ tx.check.confidence >= 50
       /\ \E score \in {Soft404Score(tx.body, tx.title)} :
             score.title = 40 /\ score.body = 50 /\ score.length = 20

\* checkSoft404 has returned for the example, whose body matches two of the
\* body patterns
C28_Witness ==
    /\ IsExample /\ tx.check.isSoft404
    /\ Cardinality(Matching(BODY_ERROR_PATTERNS, tx.body)) = 2

\* the alphanumeric characters: the letters of ASCII and the digits
Alphanumeric == Range(LowerCase) \cup Range(UpperCase) \cup Digits

\* the normalized form of a title as C29 words it: lowercased, whitespace
\* collapsed, the characters removed that are neither whitespace nor among
\* those kept, and the ends trimmed
NormalForm(title, kept) ==
    trim(SelectSeq(CollapseSpaces(toLowerCase(title)),
                   LAMBDA c : IsSpace(c) \/ c \in kept))

\* the bigrams the two strings share, as a multiset: each occurrence in one
\* string is matched with at most one occurrence in the other
SharedBigrams(a, b) ==
    LET occ(s, g) == Cardinality({i \in 1..(Len(s) - 1) : SubSeq(s, i, i + 1) = g})
        grams == {SubSeq(a, i, i + 1) : i \in 1..(Len(a) - 1)}
    IN Cardinality({<<g, n>> \in grams \X (1..Len(a)) :
                       n <= occ(a, g) /\ n <= occ(b, g)})

\* the Dice coefficient of a and b exceeds 0.8
DiceAbove80(a, b) ==
    /\ Len(a) >= 2 /\ Len(b) >= 2
    /\ 10 * 2 * SharedBigrams(a, b) > 8 * (Len(a) + Len(b) - 2)

\* when titlesMatch is true according to C29
MatchesAsStated(a, b, kept) ==
    IF ~TruthyText(a) /\ ~TruthyText(b) THEN TRUE
    ELSE IF ~TruthyText(a) \/ ~TruthyText(b) THEN FALSE
    ELSE \E na \in {NormalForm(a, kept)}, nb \in {NormalForm(b, kept)} :
            \/ na = nb
            \/ includes(na, nb) \/ includes(nb, na)
            \/ DiceAbove80(na, nb)

Examples ==
    /\ (/\ tx.sourceTitle = <<"A", "b", "o", "u", "t", " ", "U", "s">>
        /\ tx.destTitle =
             <<"A", "b", "o", "u", "t", " ", "U", "s", " ", "|", " ", "M", "y", "S", "i",
             "t", "e">>)
          => tx.match
    /\ (/\ tx.sourceTitle = <<"C", "o", "n", "t", "a", "c", "t">>
        /\ tx.destTitle = <<"H", "o", "m", "e">>)
          => ~tx.match

\* C29 as stated: titlesMatch is true exactly when both titles are absent
\* or empty, or both are present and their normalized forms (lowercased,
\* whitespace collapsed, non-alphanumeric non-space characters removed) are
\* equal, or one contains the other, or their Dice coefficient exceeds 0.8
C29_Original ==
    (mode = "titles" /\ tx.pc # "call") =>
       /\ tx.match <=> MatchesAsStated(tx.sourceTitle, tx.destTitle, Alphanumeric)
       /\ Examples

\* C29 as amended: the same, with the underscore kept by the normalization
\* beside the alphanumeric characters (ASCII letters, digits) and the
\* whitespace
C29_TitlesMatch ==
    (mode = "titles" /\ tx.pc # "call") =>
       /\ tx.match <=> MatchesAsStated(tx.sourceTitle, tx.destTitle,
                                       Alphanumeric \cup {"_"})
       /\ Examples

\* two titles that match by their Dice coefficient alone
C29_Witness ==
    /\ mode = "titles" /\ tx.pc = "matched" /\ tx.match
    /\ tx.sourceTitle = <<"h", "e", "l", "l", "o", " ", "w", "o", "r", "l", "d">>
    /\ tx.destTitle = <<"h", "e", "l", "l", "o", " ", "w", "r", "l", "d">>

Verdicts(batch, vis) ==
    LET verdict[j \in 0..Len(batch)] ==
            IF j = 0 THEN "none"
            ELSE IF \/ normalizeUrl(batch[j].url) \in vis
                    \/ \E i \in 1..(j - 1) :
                          /\ verdict[i] = "pass"
                          /\ normalizeUrl(batch[i].url) = normalizeUrl(batch[j].url)
                 THEN "visited"
            ELSE IF batch[j].depth > config.maxDepth THEN "depth"
            ELSE IF Excluded(batch[j].url) THEN "exclude"
            ELSE "pass"
    IN [j \in 1..Len(batch) |-> verdict[j]]

Count(verdicts, v) == Cardinality({j \in DOMAIN verdicts : verdicts[j] = v})

\* C35: a round takes the first min(|queue|, 2K) items of the queue and
\* gives each, in order, the dedup check, the depth check and the exclusion
\* check: a visited item counts nowhere, an unvisited item deeper than
\* maxDepth counts in skippedDueToDepth only, an excluded one within the
\* depth in skippedDueToExclude only, and the items that pass, and only
\* they, join visited and are fetched
C35_RoundFilter ==
    [][mode = "crawl" =>
         /\ dequeueLog' # dequeueLog =>
               \E n \in {Min(Len(queue), 2 * config.concurrency)} :
               \E verdicts \in {AsSeq(Verdicts(SubSeq(queue, 1, n), visited))} :
                  /\ dequeueLog' = dequeueLog \o SubSeq(queue, 1, n)
                  /\ queue' = SubSeq(queue, n + 1, Len(queue))
                  /\ stats'.skippedDueToDepth =
                        stats.skippedDueToDepth + Count(verdicts, "depth")
                  /\ stats'.skippedDueToExclude =
                        stats.skippedDueToExclude + Count(verdicts, "exclude")
                  /\ toProcess' = SelectSeq(SubSeq(queue, 1, n), LAMBDA item :
                                      \E j \in 1..n : /\ queue[j] = item
                                                       /\ verdicts[j] = "pass")
                  /\ visited' = visited \cup
                        {normalizeUrl(queue[j].url) : j \in {i \in 1..n : verdicts[i] = "pass"}}
                  /\ Len(toProcess') = Count(verdicts, "pass")
         /\ fetchLog' # fetchLog =>
               /\ \E i \in DOMAIN toProcess : fetchLog' = Append(fetchLog, toProcess[i].url)
               /\ UNCHANGED <<visited, stats, queue>>
         /\ (dequeueLog' = dequeueLog /\ pc' # "done" /\ pc # "batch") =>
               UNCHANGED <<visited, stats>>]_vars

\* a round has cut a batch of 2K items off a longer queue, and an item
\* that is excluded and too deep has been counted as too deep
C35_Witness ==
    /\ mode = "crawl" /\ pc = "done"
    /\ Len(dequeueLog) > 2 * config.concurrency + 1
    /\ stats.skippedDueToExclude = 0
    /\ stats.skippedDueToDepth >= 1
    /\ \E i \in DOMAIN dequeueLog :
          /\ Excluded(dequeueLog[i].url)
          /\ dequeueLog[i].depth > config.maxDepth
          /\ normalizeUrl(dequeueLog[i].url) \notin visited

\* the items that have passed the filter: those whose fetch has settled
\* and those of the round in progress
Admitted ==
    {settleLog[n].item : n \in DOMAIN settleLog} \cup
    {toProcess[i] : i \in DOMAIN toProcess}

\* C36: every member of visited was admitted at a depth of at most
\* maxDepth and every record has a depth of at most maxDepth; with
\* maxDepth = 0 the source url is the only url fetched, whatever links its
\* page holds
C36_DepthBound ==
    mode = "crawl" =>
       /\ \A m \in visited : \E item \in Admitted : normalizeUrl(item.url) = m
       /\ \A item \in Admitted :
             item.depth <= config.maxDepth /\ normalizeUrl(item.url) \in visited
       /\ \A k \in DOMAIN crawledUrls : crawledUrls[k].depth <= config.maxDepth
       /\ config.maxDepth = 0 =>
             /\ Len(fetchLog) <= 1
             /\ \A i \in DOMAIN fetchLog : fetchLog[i] = normalizeUrl(config.sourceUrl)
             /\ \A i \in DOMAIN dequeueLog :
                   dequeueLog[i].depth > 0 =>
                      \A k \in DOMAIN fetchLog : fetchLog[k] # dequeueLog[i].url

\* a crawl with maxDepth = 0 has ended: the page of the source url held
\* links, they were dequeued and skipped, and one url was fetched
C36_Witness ==
    /\ mode = "crawl" /\ pc = "done" /\ config.maxDepth = 0
    /\ Len(fetchLog) = 1 /\ Len(crawledUrls) = 1
    /\ stats.skippedDueToDepth >= 2
    /\ \E i \in DOMAIN dequeueLog : dequeueLog[i].depth = 1

\* the graph the crawl has walked: a pair <<from, to>> for each anchor of a
\* page that was fetched and parsed, from the url requested and from the
\* url that answered, to the same-site url the anchor names
LinkEdges ==
    UNION {LET it == settleLog[n].item
               f == settleLog[n].fetched
               hrefs == Hrefs(config.site, f.body)
               to == {normalizeUrl(normalizeLink(hrefs[j])) : j \in DOMAIN hrefs}
           IN IF Truthy(f.error) THEN {}
              ELSE {<<from, l>> : from \in {it.url, f.finalUrl},
                                  l \in {x \in to : SameSite(x)}}
           : n \in DOMAIN settleLog}

\* a redirect leads from the url requested to the url that answered, and
\* is no link
RedirectEdges ==
    {<<settleLog[n].item.url, settleLog[n].fetched.finalUrl>> :
        n \in {k \in DOMAIN settleLog : ~Truthy(settleLog[k].fetched.error)}}

Successors(S, edges) == {e[2] : e \in {x \in edges : x[1] \in S}}

RECURSIVE RedirectClosure(_)
RedirectClosure(S) ==
    LET T == S \cup Successors(S, RedirectEdges)
    IN IF T = S THEN S ELSE RedirectClosure(T)

\* the urls at most k links away from the source url
RECURSIVE Within(_)
Within(k) ==
    IF k = 0 THEN RedirectClosure({normalizeUrl(config.sourceUrl)})
    ELSE LET W == Within(k - 1)
         IN RedirectClosure(W \cup Successors(W, LinkEdges))

\* the breadth-first distance of u is d
Distance(u, d) ==
    /\ u \in Within(d)
    /\ d > 0 => u \notin Within(d - 1)

\* C37: the depth of every record of a crawl is the breadth-first distance
\* of the record's url from the source url, the length of the shortest
\* chain of links through pages the crawl has fetched and parsed, whatever
\* the order in which the fetches of a batch complete
C37_DepthIsDistance ==
    (mode = "crawl" /\ pc = "done") =>
       \A k \in DOMAIN output.urls :
          Distance(output.urls[k].url, output.urls[k].depth)

\* the normalized urls the filter has dropped as too deep, and those it has
\* dropped as excluded
DepthSkipped ==
    {normalizeUrl(dequeueLog[i].url) :
        i \in {k \in DOMAIN dequeueLog :
                  /\ normalizeUrl(dequeueLog[k].url) \notin visited
                  /\ dequeueLog[k].depth > config.maxDepth}}

ExcludeSkipped ==
    {normalizeUrl(dequeueLog[i].url) :
        i \in {k \in DOMAIN dequeueLog :
                  /\ normalizeUrl(dequeueLog[k].url) \notin visited
                  /\ dequeueLog[k].depth <= config.maxDepth
                  /\ Excluded(dequeueLog[k].url)}}

\* C38: skippedDueToDepth is the number of distinct normalized urls
\* skipped for their depth and skippedDueToExclude the number of distinct
\* normalized urls skipped for a pattern: a url linked from several pages
\* counts once
C38_SkipsCountUrls ==
    mode = "crawl" =>
       /\ stats.skippedDueToDepth = Cardinality(DepthSkipped)
       /\ stats.skippedDueToExclude = Cardinality(ExcludeSkipped)

\* C39: a page counted in failedCrawls, for a transport failure or for a
\* status outside 2xx, gives the frontier no children: no frontier item
\* and no record names the url of a failed record as discoveredFrom
C39_NoChildrenOfFailedPage ==
    mode = "crawl" =>
       \A k \in DOMAIN crawledUrls :
          ~isSuccessStatus(crawledUrls[k].statusCode) =>
             /\ \A item \in FrontierItems :
                   item.discoveredFrom # crawledUrls[k].url
             /\ \A j \in DOMAIN crawledUrls :
                   crawledUrls[j].discoveredFrom # crawledUrls[k].url

(***************************************************************************)
(* Properties of the command line.                                         *)
(***************************************************************************)
\* the string writes an integer in full: a sign or none, then digits only
Decimal(s) ==
    \E body \in {IF s # <<>> /\ s[1] = "-" THEN Tail(s) ELSE s} :
       body # <<>> /\ \A k \in DOMAIN body : body[k] \in Digits

\* the integer such a string writes
Written(s) == parseInt(s).value

\* C34: crawl is invoked only with a max depth that is numeric and not
\* negative, a concurrency that is numeric and at least 1 and a timeout
\* that is numeric and not negative, whatever the renderer; any other
\* configuration is rejected before crawl is called
C34_InvalidConfigRejected ==
    (mode = "cli" /\ cx.pc = "crawl") =>
       /\ Decimal(cx.options.maxDepth) /\ Written(cx.options.maxDepth) >= 0
       /\ Decimal(cx.options.concurrency) /\ Written(cx.options.concurrency) >= 1
       /\ Decimal(cx.options.timeout) /\ Written(cx.options.timeout) >= 0


(***************************************************************************)
(* The crawl and the validation take the result of a fetch from            *)
(* fetchUrlReturns and flareReturns; these are the results the two state   *)
(* machines above return.                                                  *)
(***************************************************************************)
ReturnsAreCovered ==
    /\ (mode = "fetch" /\ fx.pc = "returned") =>
          fx.result \in fetchUrlReturns("any", fx.url, fx.timeout, fx.retries)
    /\ (mode = "flare" /\ fx.pc = "returned") =>
          fx.result \in flareReturns("any", fx.url)
====
